---- MODULE Spec2Model ----
(***************************************************************************)
(* Model of mobile-mcp: the tool front end (src/src/server.ts) and the     *)
(* Android backend (src/src/android.ts).                                   *)
(*                                                                         *)
(* Conventions                                                             *)
(*  - a JS string is a sequence of one-character strings; the absent       *)
(*    (undefined) string is Undef;                                         *)
(*  - a JS number that may be NaN is <<>> (NaN) or <<n>>;                  *)
(*  - a coordinate that may end in .5 is [int |-> n, half |-> 0 or 1],     *)
(*    standing for n + half/2;                                             *)
(*  - the execution of a robot method or of a tool handler is a record     *)
(*    [err, msg, val, cmds, ops]: the class of the error it raised         *)
(*    ("none" when it returned), the error's message, the value returned,  *)
(*    the adb commands it spawned (in order, each with the device id, the  *)
(*    argument vector and whether the command succeeded) and the robot     *)
(*    methods the handler invoked (each with whether it returned).         *)
(***************************************************************************)
EXTENDS Integers, Sequences, FiniteSets, TLC

VARIABLES
    robot,      \* server.ts:91      the selected robot (NoRobot until selected)
    call,       \* the last tool invocation: its name and arguments
    run,        \* the execution of the last handler body
    result,     \* what the last registered callback produced
    input,      \* the argument a pure function is applied to
    output      \* the value it returned

vars == <<robot, call, run, result, input, output>>

----------------------------------------------------------------------------
(* JS strings                                                              *)

Undef == <<"#undefined">>

UpperCase == <<"A","B","C","D","E","F","G","H","I","J","K","L","M",
               "N","O","P","Q","R","S","T","U","V","W","X","Y","Z">>
LowerCase == <<"a","b","c","d","e","f","g","h","i","j","k","l","m",
               "n","o","p","q","r","s","t","u","v","w","x","y","z">>

WhiteSpace == {" ", "\t", "\n"}

DigitChars == <<"0","1","2","3","4","5","6","7","8","9">>

IsDigit(c) == \E i \in 1..Len(DigitChars) : DigitChars[i] = c

DigitVal(c) == (CHOOSE i \in 1..Len(DigitChars) : DigitChars[i] = c) - 1

LowerChar(c) ==
    IF \E i \in 1..Len(UpperCase) : UpperCase[i] = c
    THEN LowerCase[CHOOSE i \in 1..Len(UpperCase) : UpperCase[i] = c]
    ELSE c

\* String.prototype.toLowerCase
toLowerCase(s) == [i \in 1..Len(s) |-> LowerChar(s[i])]

\* String.prototype.includes
includes(s, t) ==
    \E i \in 0..(Len(s) - Len(t)) : \A j \in 1..Len(t) : s[i + j] = t[j]

\* String.prototype.trim
trim(s) ==
    LET keep == {i \in 1..Len(s) : s[i] \notin WhiteSpace}
    IN  IF keep = {} THEN <<>>
        ELSE LET lo == CHOOSE i \in keep : \A j \in keep : i <= j
                 hi == CHOOSE i \in keep : \A j \in keep : j <= i
             IN  SubSeq(s, lo, hi)

\* JS truthiness of an optional string
Truthy(s) == s # Undef /\ s # <<>>

\* a || b on optional strings
OrElse(a, b) == IF Truthy(a) THEN a ELSE b

----------------------------------------------------------------------------
(* JS numbers                                                              *)

NaN == <<>>
Num(n) == <<n>>

\* a - b on numbers that may be NaN
Minus(a, b) == IF a = NaN \/ b = NaN THEN NaN ELSE Num(a[1] - b[1])

\* a > 0 on a number that may be NaN
Positive(a) == a # NaN /\ a[1] > 0

\* Number() of a run of decimal digits
RECURSIVE DigitsToNat(_)
DigitsToNat(s) ==
    IF s = <<>> THEN 0
    ELSE 10 * DigitsToNat(SubSeq(s, 1, Len(s) - 1)) + DigitVal(s[Len(s)])

\* `${n}` of a natural number
RECURSIVE NatToDigits(_)
NatToDigits(n) ==
    IF n < 10 THEN <<DigitChars[n + 1]>>
    ELSE NatToDigits(n \div 10) \o <<DigitChars[(n % 10) + 1]>>

Max(a, b) == IF a >= b THEN a ELSE b
Min(a, b) == IF a <= b THEN a ELSE b

\* Math.floor(v * p / 100): the products by 0.80, 0.50, 0.30 and 0.20, exactly
FloorPct(v, p) == (v * p) \div 100

----------------------------------------------------------------------------
(* android.ts: the UI-tree extractor                                       *)

\* the string literals of the extractor
strButton      == <<"B","u","t","t","o","n">>
strImageView   == <<"I","m","a","g","e","V","i","e","w">>
strImageButton == <<"I","m","a","g","e","B","u","t","t","o","n">>
strView        == <<"V","i","e","w">>
strTrue        == <<"t","r","u","e">>
strFalse       == <<"f","a","l","s","e">>
strElement     == <<"e","l","e","m","e","n","t">>

\* the children of a parsed node: the field is absent, one node, or an array
NoChildren      == [kind |-> "none"]
OneChild(n)     == [kind |-> "one", node |-> n]
Children(ns)    == [kind |-> "many", nodes |-> ns]

\* the end of the longest run of digits of s that starts at i (i - 1: no digit)
RECURSIVE DigitsEnd(_, _)
DigitsEnd(s, i) ==
    IF i <= Len(s) /\ IsDigit(s[i]) THEN DigitsEnd(s, i + 1) ELSE i - 1

\* bounds.match(/^\[(\d+),(\d+)\]\[(\d+),(\d+)\]$/)?.map(Number) || [],
\* without the first entry: the four numbers, or <<>> when there is no match
MatchBounds(s) ==
    LET e1 == DigitsEnd(s, 2)
        e2 == DigitsEnd(s, e1 + 2)
        e3 == DigitsEnd(s, e2 + 3)
        e4 == DigitsEnd(s, e3 + 2)
        At(i, c) == i <= Len(s) /\ s[i] = c
    IN  IF /\ At(1, "[")
           /\ e1 >= 2      /\ At(e1 + 1, ",")
           /\ e2 >= e1 + 2 /\ At(e2 + 1, "]") /\ At(e2 + 2, "[")
           /\ e3 >= e2 + 3 /\ At(e3 + 1, ",")
           /\ e4 >= e3 + 2 /\ At(e4 + 1, "]")
           /\ Len(s) = e4 + 1
        THEN << DigitsToNat(SubSeq(s, 2, e1)),
                DigitsToNat(SubSeq(s, e1 + 2, e2)),
                DigitsToNat(SubSeq(s, e2 + 3, e3)),
                DigitsToNat(SubSeq(s, e3 + 2, e4)) >>
        ELSE <<>>

\* getScreenElementRect taking the second corner for the size
getScreenElementRect_second_corner(node) ==
    LET m == MatchBounds(node.bounds)
    IN  IF m = <<>> THEN [x |-> NaN, y |-> NaN, width |-> NaN, height |-> NaN]
        ELSE [x |-> Num(m[1]), y |-> Num(m[2]),
              width |-> Num(m[3]), height |-> Num(m[4])]

\* AndroidRobot.getScreenElementRect
getScreenElementRect(node) ==
    LET m      == MatchBounds(node.bounds)   \* String(undefined) matches nothing
        left   == IF m = <<>> THEN NaN ELSE Num(m[1])
        top    == IF m = <<>> THEN NaN ELSE Num(m[2])
        right  == IF m = <<>> THEN NaN ELSE Num(m[3])
        bottom == IF m = <<>> THEN NaN ELSE Num(m[4])
    IN  [x |-> left, y |-> top,
         width |-> Minus(right, left), height |-> Minus(bottom, top)]

\* collectElements: const hasTextOrLabel = ...
hasTextOrLabel(node) ==
    \/ Truthy(node.text)
    \/ Truthy(node.contentDesc)
    \/ Truthy(node.hint)
    \/ Truthy(node.resourceId)

\* isInteractive without the focusable test
isInteractive_without_focusable(node) ==
    \/ node.clickable = strTrue
    \/ /\ Truthy(node.class)
       /\ \/ includes(node.class, strButton)
          \/ includes(node.class, strImageView)
          \/ includes(node.class, strImageButton)
          \/ includes(node.class, strView)

\* collectElements: const isInteractive = ...
isInteractive(node) ==
    \/ node.clickable = strTrue
    \/ node.focusable = strTrue
    \/ /\ Truthy(node.class)
       /\ \/ includes(node.class, strButton)
          \/ includes(node.class, strImageView)
          \/ includes(node.class, strImageButton)
          \/ includes(node.class, strView)

\* collectElements: the element built for a node
ElementOf(node) ==
    [type       |-> OrElse(node.class, strElement),
     text       |-> node.text,
     label      |-> OrElse(node.contentDesc, OrElse(node.hint, <<>>)),
     name       |-> Undef,
     value      |-> Undef,
     identifier |-> IF node.resourceId # <<>> THEN node.resourceId ELSE Undef,
     focused    |-> node.focused = strTrue,
     rect       |-> getScreenElementRect(node)]

\* collectElements: what the node itself adds, after its children's elements
OwnElements(node) ==
    IF hasTextOrLabel(node) \/ isInteractive(node)
    THEN LET element == ElementOf(node)
         IN  IF Positive(element.rect.width) /\ Positive(element.rect.height)
             THEN <<element>>
             ELSE <<>>
    ELSE <<>>

RECURSIVE collectElements(_)
RECURSIVE CollectAll(_)

\* the for loop of collectElements over an array of children
CollectAll(nodes) ==
    IF nodes = <<>> THEN <<>>
    ELSE collectElements(Head(nodes)) \o CollectAll(Tail(nodes))

\* AndroidRobot.collectElements
collectElements(node) ==
    LET fromChildren ==
            CASE node.node.kind = "many" -> CollectAll(node.node.nodes)
              [] node.node.kind = "one"  -> collectElements(node.node.node)
              [] OTHER                   -> <<>>
    IN  fromChildren \o OwnElements(node)

----------------------------------------------------------------------------
(* server.ts: the element matcher of mobile_tap_element                    *)

\* the fields of an element that are searched
searchFields(element) ==
    LET all == <<element.text, element.label, element.name,
                 element.value, element.identifier>>
    IN  SelectSeq(all, LAMBDA field : Truthy(field) /\ trim(field) # <<>>)

\* the predicate with the two toLowerCase() calls left out
Matches_case_sensitive(element, query) ==
    LET fields == searchFields(element)
    IN  \E i \in 1..Len(fields) : includes(fields[i], query)

\* the predicate of elements.filter(...)
Matches(element, query) ==
    LET fields == searchFields(element)
    IN  \E i \in 1..Len(fields) :
            includes(toLowerCase(fields[i]), toLowerCase(query))

matchingElements(elements, query) ==
    SelectSeq(elements, LAMBDA element : Matches(element, query))

\* e.text || e.label || e.name || e.value || e.identifier
DisplayOf(e) ==
    OrElse(e.text, OrElse(e.label, OrElse(e.name, OrElse(e.value, e.identifier))))

\* a coordinate n + half/2
Coord(n) == [int |-> n, half |-> 0]

\* rect.x + (rect.width / 2)
CenterX(rect) ==
    [int |-> rect.x[1] + (rect.width[1] \div 2), half |-> rect.width[1] % 2]

\* rect.y + (rect.height / 2)
CenterY(rect) ==
    [int |-> rect.y[1] + (rect.height[1] \div 2), half |-> rect.height[1] % 2]

----------------------------------------------------------------------------
(* Executions: what a robot method or a handler body did                   *)

Returned(v) == [err |-> "none", msg |-> <<>>, val |-> v, cmds |-> <<>>, ops |-> <<>>]

Threw(class, message) ==
    [err |-> class, msg |-> message, val |-> <<>>, cmds |-> <<>>, ops |-> <<>>]

\* r1; r2 -- r2 runs only when r1 returned
Then(r1, r2) ==
    IF r1.err # "none" THEN r1
    ELSE [r2 EXCEPT !.cmds = r1.cmds \o @, !.ops = r1.ops \o @]

\* a robot method invoked by a tool handler
Invoke(method, r) == [r EXCEPT !.ops = <<[op |-> method, ok |-> r.err = "none"]>>]

\* the execution r, returning v when it returns
Giving(r, v) == IF r.err # "none" THEN r ELSE [r EXCEPT !.val = v]

----------------------------------------------------------------------------
(* android.ts: AndroidRobot                                                *)

\* BUTTON_MAP
BUTTON_MAP ==
    [b \in {"BACK", "HOME", "VOLUME_UP", "VOLUME_DOWN", "ENTER", "DPAD_CENTER",
            "DPAD_UP", "DPAD_DOWN", "DPAD_LEFT", "DPAD_RIGHT"} |->
        CASE b = "BACK"        -> "KEYCODE_BACK"
          [] b = "HOME"        -> "KEYCODE_HOME"
          [] b = "VOLUME_UP"   -> "KEYCODE_VOLUME_UP"
          [] b = "VOLUME_DOWN" -> "KEYCODE_VOLUME_DOWN"
          [] b = "ENTER"       -> "KEYCODE_ENTER"
          [] b = "DPAD_CENTER" -> "KEYCODE_DPAD_CENTER"
          [] b = "DPAD_UP"     -> "KEYCODE_DPAD_UP"
          [] b = "DPAD_DOWN"   -> "KEYCODE_DPAD_DOWN"
          [] b = "DPAD_LEFT"   -> "KEYCODE_DPAD_LEFT"
          [] b = "DPAD_RIGHT"  -> "KEYCODE_DPAD_RIGHT"]

\* adb run without "-s", deviceId: the command goes to whichever device adb
\* picks by default
adb_default_device(deviceId, args, ok, out) ==
    [err  |-> IF ok THEN "none" ELSE "Error",
     msg  |-> IF ok THEN <<>> ELSE <<"Command failed: adb">>,
     val  |-> IF ok THEN out ELSE <<>>,
     cmds |-> <<[dev |-> "default", args |-> args, ok |-> ok]>>,
     ops  |-> <<>>]

\* AndroidRobot.adb: execFileSync(adb, ["-s", deviceId, ...args]); it returns the
\* command's output, or throws when the command fails, times out or overflows
adb(deviceId, args, ok, out) ==
    [err  |-> IF ok THEN "none" ELSE "Error",
     msg  |-> IF ok THEN <<>> ELSE <<"Command failed: adb">>,
     val  |-> IF ok THEN out ELSE <<>>,
     cmds |-> <<[dev |-> deviceId, args |-> args, ok |-> ok]>>,
     ops  |-> <<>>]

\* AndroidRobot.getScreenSize; env.size is the size `wm size` prints last, or
\* NoSize when it prints nothing
NoSize == [width |-> 0, height |-> 0]

getScreenSize(deviceId, env) ==
    LET r == adb(deviceId, <<"shell", "wm", "size">>, env.sizeOk, env.size)
    IN  IF r.err # "none" THEN r
        ELSE IF env.size = NoSize
             THEN [r EXCEPT !.err = "Error", !.msg = <<"Failed to get screen size">>,
                            !.val = <<>>]
             ELSE Giving(r, [width |-> env.size.width, height |-> env.size.height,
                             scale |-> 1])

\* AndroidRobot.listApps
listApps(deviceId, env) ==
    adb(deviceId, <<"shell", "cmd", "package", "query-activities", "-a",
                    "android.intent.action.MAIN", "-c",
                    "android.intent.category.LAUNCHER">>, env.ok, env.apps)

\* AndroidRobot.launchApp
launchApp(deviceId, packageName, env) ==
    Giving(adb(deviceId, <<"shell", "monkey", "-p", packageName, "-c",
                           "android.intent.category.LAUNCHER", "1">>, env.ok, <<>>),
           <<>>)

\* AndroidRobot.terminateApp
terminateApp(deviceId, packageName, env) ==
    adb(deviceId, <<"shell", "am", "force-stop", packageName>>, env.ok, <<>>)

\* AndroidRobot.openUrl
openUrl(deviceId, url, env) ==
    adb(deviceId, <<"shell", "am", "start", "-a", "android.intent.action.VIEW",
                    "-d", url>>, env.ok, <<>>)

\* text.replace(/ /g, "\\ ")
RECURSIVE EscapeSpaces(_)
EscapeSpaces(text) ==
    IF text = <<>> THEN <<>>
    ELSE (IF Head(text) = " " THEN <<"\\", " ">> ELSE <<Head(text)>>)
         \o EscapeSpaces(Tail(text))

\* AndroidRobot.sendKeys
sendKeys(deviceId, text, env) ==
    adb(deviceId, <<"shell", "input", "text", EscapeSpaces(text)>>, env.ok, <<>>)

\* BUTTON_MAP is an object literal: besides its own entries, BUTTON_MAP[name]
\* finds the members it inherits from Object.prototype, which are functions;
\* these are three of them, with the text String() gives for each
ObjectPrototype ==
    [n \in {"constructor", "toString", "valueOf"} |->
        CASE n = "constructor" -> "function Object() { [native code] }"
          [] n = "toString"    -> "function toString() { [native code] }"
          [] n = "valueOf"     -> "function valueOf() { [native code] }"]

\* AndroidRobot.pressButton. !BUTTON_MAP[button] is false for an inherited
\* member too, which is then handed to execFileSync as an argument: where
\* env.coerces, the runtime turns it into its text and runs the command, else
\* it rejects the argument with a TypeError before any command runs.
pressButton(deviceId, button, env) ==
    IF button \in DOMAIN BUTTON_MAP
    THEN adb(deviceId, <<"shell", "input", "keyevent", BUTTON_MAP[button]>>,
             env.ok, <<>>)
    ELSE IF button \in DOMAIN ObjectPrototype
    THEN IF env.coerces
         THEN adb(deviceId, <<"shell", "input", "keyevent", ObjectPrototype[button]>>,
                  env.ok, <<>>)
         ELSE Threw("Error", <<"TypeError: the argument must be of type string">>)
    ELSE Threw("ActionableError", <<"Button is not supported", button>>)

\* AndroidRobot.tap
tap(deviceId, x, y, env) ==
    adb(deviceId, <<"shell", "input", "tap", x, y>>, env.ok, <<>>)

\* AndroidRobot.setOrientation; env.fail is the first of its commands to fail
setOrientation(deviceId, orientation, env) ==
    LET orientationValue == IF orientation = "portrait" THEN 0 ELSE 1
    IN  Then(adb(deviceId, <<"shell", "settings", "put", "system",
                             "accelerometer_rotation", "0">>, env.fail # 1, <<>>),
             adb(deviceId, <<"shell", "content", "insert", "--uri",
                             "content://settings/system", "--bind",
                             "name:s:user_rotation", "--bind", orientationValue>>,
                 env.fail # 2, <<>>))

\* AndroidRobot.getOrientation; env.rotation is the trimmed output
getOrientation(deviceId, env) ==
    LET r == adb(deviceId, <<"shell", "settings", "get", "system", "user_rotation">>,
                 env.ok, env.rotation)
    IN  Giving(r, IF env.rotation = "0" THEN "portrait" ELSE "landscape")

\* AndroidRobot.getScreenshot
getScreenshot(deviceId, env) ==
    adb(deviceId, <<"exec-out", "screencap", "-p">>, env.shotOk, env.png)

\* the switch of swipe with the "down" case a copy of the "up" case
SwipePoints_down_as_up(direction, screenSize) ==
    LET centerX == screenSize.width \div 2
    IN  CASE direction \in {"up", "down"} ->
                <<centerX, FloorPct(screenSize.height, 80),
                  centerX, FloorPct(screenSize.height, 20)>>
          [] direction = "left" ->
                <<FloorPct(screenSize.width, 80), FloorPct(screenSize.height, 50),
                  FloorPct(screenSize.width, 20), FloorPct(screenSize.height, 50)>>
          [] direction = "right" ->
                <<FloorPct(screenSize.width, 20), FloorPct(screenSize.height, 50),
                  FloorPct(screenSize.width, 80), FloorPct(screenSize.height, 50)>>
          [] OTHER -> <<>>

\* the switch of AndroidRobot.swipe: <<x0, y0, x1, y1>>, or <<>> in the default case
SwipePoints(direction, screenSize) ==
    LET centerX == screenSize.width \div 2      \* screenSize.width >> 1
    IN  CASE direction = "up" ->
                <<centerX, FloorPct(screenSize.height, 80),
                  centerX, FloorPct(screenSize.height, 20)>>
          [] direction = "down" ->
                <<centerX, FloorPct(screenSize.height, 20),
                  centerX, FloorPct(screenSize.height, 80)>>
          [] direction = "left" ->
                <<FloorPct(screenSize.width, 80), FloorPct(screenSize.height, 50),
                  FloorPct(screenSize.width, 20), FloorPct(screenSize.height, 50)>>
          [] direction = "right" ->
                <<FloorPct(screenSize.width, 20), FloorPct(screenSize.height, 50),
                  FloorPct(screenSize.width, 80), FloorPct(screenSize.height, 50)>>
          [] OTHER -> <<>>

\* this.adb("shell", "input", "swipe", `${x0}`, `${y0}`, `${x1}`, `${y1}`, "1000")
SwipeCommand(deviceId, p, env) ==
    adb(deviceId, <<"shell", "input", "swipe", p[1], p[2], p[3], p[4], "1000">>,
        env.ok, <<>>)

\* AndroidRobot.swipe
swipe(deviceId, direction, env) ==
    LET size == getScreenSize(deviceId, env)
        p    == SwipePoints(direction, size.val)
    IN  IF size.err # "none" THEN size
        ELSE IF p = <<>>
             THEN Then(size, Threw("ActionableError",
                                   <<"Swipe direction is not supported", direction>>))
             ELSE Then(size, SwipeCommand(deviceId, p, env))

\* the optional distance argument: <<>> when omitted, <<d>> when given
NoDistance == <<>>

\* distance || fallback
DistanceOr(distance, fallback) ==
    IF distance = NoDistance \/ distance[1] = 0 THEN fallback ELSE distance[1]

\* the switch of AndroidRobot.swipeFromCoordinate
SwipeFromPoints(x, y, direction, distance, screenSize) ==
    LET defaultDistanceY == FloorPct(screenSize.height, 30)
        defaultDistanceX == FloorPct(screenSize.width, 30)
        swipeDistanceY   == DistanceOr(distance, defaultDistanceY)
        swipeDistanceX   == DistanceOr(distance, defaultDistanceX)
    IN  CASE direction = "up" ->
                <<x, y, x, Max(0, y - swipeDistanceY)>>
          [] direction = "down" ->
                <<x, y, x, Min(screenSize.height, y + swipeDistanceY)>>
          [] direction = "left" ->
                <<x, y, Max(0, x - swipeDistanceX), y>>
          [] direction = "right" ->
                <<x, y, Min(screenSize.width, x + swipeDistanceX), y>>
          [] OTHER -> <<>>

\* AndroidRobot.swipeFromCoordinate
swipeFromCoordinate(deviceId, x, y, direction, distance, env) ==
    LET size == getScreenSize(deviceId, env)
        p    == SwipeFromPoints(x, y, direction, distance, size.val)
    IN  IF size.err # "none" THEN size
        ELSE IF p = <<>>
             THEN Then(size, Threw("ActionableError",
                                   <<"Swipe direction is not supported", direction>>))
             ELSE Then(size, SwipeCommand(deviceId, p, env))

\* the number of attempts of getUiAutomatorDump
MaxTries == 10

\* AndroidRobot.getUiAutomatorDump, from attempt `tries` on. Of the dumps the
\* device produces, the first env.nulls report "null root node returned by
\* UiTestAutomationBridge", the next one is env.tree; the command of attempt
\* env.fail (counted from 1) fails.
RECURSIVE DumpFrom(_, _, _)
DumpFrom(deviceId, env, tries) ==
    IF tries >= MaxTries
    THEN Threw("ActionableError", <<"Failed to get UIAutomator XML">>)
    ELSE LET dump == adb(deviceId, <<"exec-out", "uiautomator", "dump", "/dev/tty">>,
                         env.fail # tries + 1, env.tree)
         IN  IF dump.err # "none" THEN dump
             ELSE IF tries < env.nulls
                  THEN Then(dump, DumpFrom(deviceId, env, tries + 1))
                  ELSE dump

getUiAutomatorDump(deviceId, env) == DumpFrom(deviceId, env, 0)

\* AndroidRobot.getElementsOnScreen (getUiAutomatorXml parses the dump into
\* hierarchy.node, which env.tree stands for)
getElementsOnScreen(deviceId, env) ==
    LET dump == getUiAutomatorDump(deviceId, env)
    IN  Giving(dump, collectElements(dump.val))

----------------------------------------------------------------------------
(* android.ts: AndroidRobot.getDeviceLogs                                  *)

strPackageColon == <<"p","a","c","k","a","g","e",":">>
strPackageMine  == <<"p","a","c","k","a","g","e",":","m","i","n","e">>
strMine         == <<"m","i","n","e">>
strOneMinute    == <<"1","m">>

\* String.prototype.startsWith
startsWith(s, t) == Len(t) <= Len(s) /\ SubSeq(s, 1, Len(t)) = t

\* String.prototype.replace with a string pattern: the first occurrence only
replaceFirst(s, t, r) ==
    IF ~includes(s, t) THEN s
    ELSE LET i == CHOOSE k \in 0..(Len(s) - Len(t)) :
                    /\ SubSeq(s, k + 1, k + Len(t)) = t
                    /\ \A l \in 0..(k - 1) : SubSeq(s, l + 1, l + Len(t)) # t
         IN  SubSeq(s, 1, i) \o r \o SubSeq(s, i + Len(t) + 1, Len(s))

\* the end of the longest run of s from i on whose characters are (not) white space
RECURSIVE RunEnd(_, _, _)
RunEnd(s, i, white) ==
    IF i <= Len(s) /\ ((s[i] \in WhiteSpace) = white)
    THEN RunEnd(s, i + 1, white) ELSE i - 1

\* the end of the longest run of s from i on without a line break
RECURSIVE LineEnd(_, _)
LineEnd(s, i) == IF i <= Len(s) /\ s[i] # "\n" THEN LineEnd(s, i + 1) ELSE i - 1

\* effectiveFilter.match(/package:([^\s]+)(?:\s+(.+))?/): <<>> when there is no
\* match, else <<group 1, group 2>> with Undef for a group that did not take part
MatchPackage(s) ==
    LET starts == {k \in 0..(Len(s) - Len(strPackageColon) - 1) :
                      /\ SubSeq(s, k + 1, k + Len(strPackageColon)) = strPackageColon
                      /\ s[k + Len(strPackageColon) + 1] \notin WhiteSpace}
    IN  IF starts = {} THEN <<>>
        ELSE LET k    == CHOOSE x \in starts : \A y \in starts : x <= y
                 from == k + Len(strPackageColon) + 1
                 e1   == RunEnd(s, from, FALSE)
                 w    == RunEnd(s, e1 + 1, TRUE)
                 \* \s+ gives back white space until a character follows that . matches
                 cuts == {j \in (e1 + 1)..w : j + 1 <= Len(s) /\ s[j + 1] # "\n"}
             IN  IF cuts = {} THEN <<SubSeq(s, from, e1), Undef>>
                 ELSE LET j == CHOOSE x \in cuts : \A y \in cuts : y <= x
                      IN  <<SubSeq(s, from, e1), SubSeq(s, j + 1, LineEnd(s, j + 1))>>

\* AndroidRobot.parseTimeWindow
parseTimeWindow(timeWindow) ==
    LET e == DigitsEnd(timeWindow, 1)
    IN  IF e >= 1 /\ Len(timeWindow) = e + 1 /\ timeWindow[e + 1] \in {"s", "m", "h"}
        THEN LET value == DigitsToNat(SubSeq(timeWindow, 1, e))
                 unit  == timeWindow[e + 1]
             IN  CASE unit = "s" -> value
                   [] unit = "m" -> value * 60
                   [] unit = "h" -> value * 3600
        ELSE 60

\* getDeviceLogs: the filter after the process parameter is folded into it
EffectiveFilter(filter, processFilter) ==
    IF Truthy(processFilter) /\ Truthy(filter) /\ ~includes(filter, strPackageColon)
    THEN strPackageColon \o processFilter \o <<" ">> \o filter
    ELSE IF Truthy(processFilter) /\ ~Truthy(filter)
         THEN strPackageColon \o processFilter
         ELSE filter

\* getDeviceLogs: packageFilter and searchQuery (Undef for null)
ParsedFilter(effectiveFilter) ==
    IF ~Truthy(effectiveFilter)
    THEN [packageFilter |-> Undef, searchQuery |-> Undef]
    ELSE IF startsWith(effectiveFilter, strPackageMine)
    THEN LET query == trim(replaceFirst(effectiveFilter, strPackageMine, <<>>))
         IN  [packageFilter |-> Undef,
              searchQuery |-> IF query # <<>> THEN query ELSE Undef]
    ELSE IF includes(effectiveFilter, strPackageColon)
    THEN LET packageMatch == MatchPackage(effectiveFilter)
         IN  IF packageMatch = <<>>
             THEN [packageFilter |-> Undef, searchQuery |-> Undef]
             ELSE [packageFilter |-> packageMatch[1],
                   searchQuery |-> IF Truthy(packageMatch[2]) THEN packageMatch[2]
                                   ELSE Undef]
    ELSE [packageFilter |-> Undef, searchQuery |-> effectiveFilter]

\* getDeviceLogs: the arguments that say from when on the log is read; the
\* timestamp is the current time less secondsBack
TimeArgs(timeWindow) ==
    IF Truthy(timeWindow)
    THEN <<"-T", [secondsBack |-> parseTimeWindow(timeWindow)]>>
    ELSE <<"-d">>

\* getDeviceLogs: for (const pid of pids) args.push("--pid", pid)
RECURSIVE PidArgs(_)
PidArgs(pids) ==
    IF pids = <<>> THEN <<>> ELSE <<"--pid", Head(pids)>> \o PidArgs(Tail(pids))

\* getDeviceLogs: the line is kept by the package:mine filter
IsUserPackageLine(line) ==
    /\ ~includes(line, <<"c","o","m",".","a","n","d","r","o","i","d",".">>)
    /\ ~includes(line, <<"a","n","d","r","o","i","d",".">>)
    /\ ~includes(line, <<"s","y","s","t","e","m","_">>)
    /\ \/ includes(line, <<"c","o","m",".">>) \/ includes(line, <<"i","o",".">>)
       \/ includes(line, <<"n","e","t",".">>) \/ includes(line, <<"a","p","p",".">>)

\* String.prototype.split("\n")
RECURSIVE split(_)
split(s) ==
    LET e == LineEnd(s, 1)
    IN  IF e = Len(s) THEN <<s>>
        ELSE <<SubSeq(s, 1, e)>> \o split(SubSeq(s, e + 2, Len(s)))

\* Array.prototype.join("\n")
RECURSIVE join(_)
join(lines) ==
    IF lines = <<>> THEN <<>>
    ELSE IF Len(lines) = 1 THEN lines[1]
         ELSE lines[1] \o <<"\n">> \o join(Tail(lines))

\* the post-processing with the text search done on, and returning, the
\* lines in lower case
FilterLines_lowercased(printed, filter, parsed) ==
    LET lines  == SelectSeq(split(printed), LAMBDA line : trim(line) # <<>>)
        byPkg  == IF Truthy(parsed.packageFilter) /\ parsed.packageFilter # strMine
                  THEN SelectSeq(lines, LAMBDA line : includes(line, parsed.packageFilter))
                  ELSE lines
        byMine == IF Truthy(filter) /\ startsWith(filter, strPackageMine)
                  THEN SelectSeq(byPkg, IsUserPackageLine)
                  ELSE byPkg
        lower  == [i \in 1..Len(byMine) |-> toLowerCase(byMine[i])]
        byText == IF Truthy(parsed.searchQuery)
                  THEN SelectSeq(lower, LAMBDA line :
                           includes(line, toLowerCase(parsed.searchQuery)))
                  ELSE byMine
    IN  join(byText)

\* getDeviceLogs: the post-processing of the text logcat printed
FilterLines(printed, filter, parsed) ==
    LET lines  == SelectSeq(split(printed), LAMBDA line : trim(line) # <<>>)
        byPkg  == IF Truthy(parsed.packageFilter) /\ parsed.packageFilter # strMine
                  THEN SelectSeq(lines, LAMBDA line : includes(line, parsed.packageFilter))
                  ELSE lines
        byMine == IF Truthy(filter) /\ startsWith(filter, strPackageMine)
                  THEN SelectSeq(byPkg, IsUserPackageLine)
                  ELSE byPkg
        byText == IF Truthy(parsed.searchQuery)
                  THEN SelectSeq(byMine, LAMBDA line :
                           includes(toLowerCase(line), toLowerCase(parsed.searchQuery)))
                  ELSE byMine
    IN  join(byText)

\* the text of a log: every entry's line, each ended by a line break
RECURSIVE LogText(_)
LogText(entries) ==
    IF entries = <<>> THEN <<>>
    ELSE Head(entries).line \o <<"\n">> \o LogText(Tail(entries))

\* what logcat prints: the lines of the device's log, each written by a process,
\* restricted to the processes named with --pid when there are any
Logcat(log, pids) ==
    LogText(SelectSeq(log, LAMBDA entry :
                pids = <<>> \/ \E i \in 1..Len(pids) : pids[i] = entry.pid))

\* AndroidRobot.getDeviceLogs; env.pidOk and env.pids are the outcome of pidof,
\* env.logOk and env.log those of logcat.
getDeviceLogs(deviceId, options, env) ==
    LET timeWindow == OrElse(options.timeWindow, strOneMinute)
        filter     == options.filter
        parsed     == ParsedFilter(EffectiveFilter(filter, options.process))
        wantsPids  == Truthy(parsed.packageFilter) /\ parsed.packageFilter # strMine
        pidof      == adb(deviceId, <<"shell", "pidof", parsed.packageFilter>>,
                          env.pidOk, env.pids)
        pids       == IF wantsPids /\ env.pidOk THEN env.pids ELSE <<>>
        logcat     == adb(deviceId,
                          <<"shell", "logcat">> \o TimeArgs(timeWindow) \o PidArgs(pids),
                          env.logOk, Logcat(env.log, pids))
        \* the exception of pidof is caught: only its command remains
        before     == IF wantsPids
                      THEN [Returned(<<>>) EXCEPT !.cmds = pidof.cmds]
                      ELSE Returned(<<>>)
    IN  Then(before, Giving(logcat, FilterLines(logcat.val, filter, parsed)))

----------------------------------------------------------------------------
(* server.ts: the tool handlers                                            *)

\* let robot: Robot | null -- before any selection
NoRobot == [kind |-> "none", deviceId |-> ""]

\* new AndroidRobot(device)
AndroidRobot(device) == [kind |-> "android", deviceId |-> device]

NoDeviceSelected ==
    <<"No device selected. Use the mobile_use_device tool to select a device.">>

\* requireRobot
requireRobot(r) ==
    IF r = NoRobot THEN Threw("ActionableError", NoDeviceSelected)
    ELSE Returned(<<>>)

\* mobile_use_device (the "android" case; the other robots are not in android.ts)
mobile_use_device(r, args) == Returned(<<"Selected device: ", args.device>>)

\* mobile_list_apps (an AndroidRobot has no listAppsBooted)
mobile_list_apps(r, args, env) ==
    LET apps == Invoke("listApps", listApps(r.deviceId, env))
    IN  Then(requireRobot(r),
             Giving(apps, <<"Found these apps on device: ", apps.val>>))

\* mobile_launch_app (an AndroidRobot has no launchAppBooted)
mobile_launch_app(r, args, env) ==
    Then(requireRobot(r),
         Giving(Invoke("launchApp", launchApp(r.deviceId, args.packageName, env)),
                <<"Launched app ", args.packageName>>))

\* mobile_terminate_app (an AndroidRobot has no terminateAppBooted)
mobile_terminate_app(r, args, env) ==
    Then(requireRobot(r),
         Giving(Invoke("terminateApp", terminateApp(r.deviceId, args.packageName, env)),
                <<"Terminated app ", args.packageName>>))

\* mobile_get_screen_size
mobile_get_screen_size(r, args, env) ==
    LET size == Invoke("getScreenSize", getScreenSize(r.deviceId, env))
    IN  Then(requireRobot(r),
             Giving(size, <<"Screen size is ", size.val.width, "x", size.val.height,
                            " pixels">>))

\* mobile_click_on_screen_at_coordinates
mobile_click_on_screen_at_coordinates(r, args, env) ==
    Then(requireRobot(r),
         Giving(Invoke("tap", tap(r.deviceId, Coord(args.x), Coord(args.y), env)),
                <<"Clicked on screen at coordinates: ", args.x, ", ", args.y>>))

\* mobile_list_elements_on_screen
mobile_list_elements_on_screen(r, args, env) ==
    LET elements == Invoke("getElementsOnScreen", getElementsOnScreen(r.deviceId, env))
    IN  Then(requireRobot(r),
             Giving(elements, <<"Found these elements on screen: ", elements.val>>))

\* mobile_press_button
mobile_press_button(r, args, env) ==
    Then(requireRobot(r),
         Giving(Invoke("pressButton", pressButton(r.deviceId, args.button, env)),
                <<"Pressed the button: ", args.button>>))

\* mobile_open_url
mobile_open_url(r, args, env) ==
    Then(requireRobot(r),
         Giving(Invoke("openUrl", openUrl(r.deviceId, args.url, env)),
                <<"Opened URL: ", args.url>>))

\* swipe_on_screen; args.x and args.y are <<>> when omitted
swipe_on_screen(r, args, env) ==
    Then(requireRobot(r),
         IF args.x # <<>> /\ args.y # <<>>
         THEN Giving(Invoke("swipeFromCoordinate",
                            swipeFromCoordinate(r.deviceId, args.x[1], args.y[1],
                                                args.direction, args.distance, env)),
                     <<"Swiped ", args.direction,
                       IF args.distance = NoDistance \/ args.distance[1] = 0
                       THEN <<>> ELSE args.distance,
                       " from coordinates: ", args.x[1], ", ", args.y[1]>>)
         ELSE Giving(Invoke("swipe", swipe(r.deviceId, args.direction, env)),
                     <<"Swiped ", args.direction, " on screen">>))

\* mobile_type_keys with the ENTER press not awaited: its failure is lost
mobile_type_keys_not_awaited(r, args, env) ==
    LET typed == Invoke("sendKeys", sendKeys(r.deviceId, args.text, env.keys))
        enter == Invoke("pressButton", pressButton(r.deviceId, "ENTER", env.enter))
    IN  Then(requireRobot(r),
             Giving(IF args.submit
                    THEN Then(typed, [enter EXCEPT !.err = "none", !.msg = <<>>])
                    ELSE typed,
                    <<"Typed text: ", args.text>>))

\* mobile_type_keys; env.keys and env.enter are the environments of the two methods
mobile_type_keys(r, args, env) ==
    LET typed == Invoke("sendKeys", sendKeys(r.deviceId, args.text, env.keys))
        enter == Invoke("pressButton", pressButton(r.deviceId, "ENTER", env.enter))
    IN  Then(requireRobot(r),
             Giving(IF args.submit THEN Then(typed, enter) ELSE typed,
                    <<"Typed text: ", args.text>>))

\* mobile_set_orientation
mobile_set_orientation(r, args, env) ==
    Then(requireRobot(r),
         Giving(Invoke("setOrientation",
                       setOrientation(r.deviceId, args.orientation, env)),
                <<"Changed device orientation to ", args.orientation>>))

\* mobile_get_orientation
mobile_get_orientation(r, args, env) ==
    LET orientation == Invoke("getOrientation", getOrientation(r.deviceId, env))
    IN  Then(requireRobot(r),
             Giving(orientation,
                    <<"Current device orientation is ", orientation.val>>))

\* the handler without its check for several matches: it taps the first one
TapMatching_first_match(r, query, elements, env) ==
    LET matching == matchingElements(elements, query)
    IN  IF Len(matching) = 0
        THEN Threw("ActionableError", <<"No element found matching query", query>>)
        ELSE Giving(Invoke("tap", tap(r.deviceId, CenterX(matching[1].rect),
                                      CenterY(matching[1].rect), env.tap)),
                    <<"Tapped element ", DisplayOf(matching[1])>>)

\* mobile_tap_element, after getElementsOnScreen returned `elements`
TapMatching(r, query, elements, env) ==
    LET matching == matchingElements(elements, query)
    IN  IF Len(matching) = 0
        THEN Threw("ActionableError",
                   <<"No element found matching query", query,
                     SelectSeq([i \in 1..Len(elements) |-> DisplayOf(elements[i])],
                               Truthy)>>)
        ELSE IF Len(matching) > 1
        THEN Threw("ActionableError",
                   <<"Multiple elements found matching query", query, Len(matching),
                     [i \in 1..Len(matching) |->
                        [element |-> matching[i],
                         coordinates |-> [x |-> CenterX(matching[i].rect),
                                          y |-> CenterY(matching[i].rect)]]]>>)
        ELSE LET matchingElement == matching[1]
                 centerX == CenterX(matchingElement.rect)
                 centerY == CenterY(matchingElement.rect)
             IN  Giving(Invoke("tap", tap(r.deviceId, centerX, centerY, env.tap)),
                        <<"Tapped element ", DisplayOf(matchingElement),
                          " at coordinates: ", centerX, ", ", centerY>>)

\* mobile_tap_element; env.dump and env.tap are the environments of the two methods
mobile_tap_element(r, args, env) ==
    LET elements == Invoke("getElementsOnScreen",
                           getElementsOnScreen(r.deviceId, env.dump))
    IN  Then(requireRobot(r),
             IF elements.err # "none" THEN elements
             ELSE Then(elements, TapMatching(r, args.query, elements.val, env)))

\* mobile_get_log
mobile_get_log(r, args, env) ==
    LET logs == Invoke("getDeviceLogs", getDeviceLogs(r.deviceId, args, env))
    IN  Then(requireRobot(r),
             Giving(logs,
                    <<"Device logs",
                      IF Truthy(args.timeWindow) THEN args.timeWindow ELSE <<>>,
                      IF Truthy(args.filter) THEN args.filter ELSE <<>>,
                      IF Truthy(args.process) THEN args.process ELSE <<>>,
                      logs.val>>))

\* new PNG(screenshot).getDimensions(): the header's dimensions, or an exception
\* when the bytes are no PNG (png.ts is not among the sources)
PNG_getDimensions(png) ==
    IF png.valid THEN Returned([width |-> png.width, height |-> png.height])
    ELSE Threw("Error", <<"Not a valid PNG file">>)

\* mobile_take_screenshot: the try block (an AndroidRobot has no
\* getScreenshotBooted); env.magick is isImageMagickInstalled()
ScreenshotTry(r, args, env) ==
    LET screenSize == Invoke("getScreenSize", getScreenSize(r.deviceId, env))
        screenshot == Invoke("getScreenshot", getScreenshot(r.deviceId, env))
        pngSize    == PNG_getDimensions(env.png)
        checked    ==
            IF pngSize.err # "none" THEN pngSize
            ELSE IF pngSize.val.width <= 0 \/ pngSize.val.height <= 0
                 THEN Threw("ActionableError",
                            <<"Screenshot is invalid. Please try again.">>)
                 ELSE Returned(
                        [text |-> <<"Screenshot: ", pngSize.val.width, "x",
                                    pngSize.val.height, "px">>,
                         mimeType |-> IF env.magick THEN "image/jpeg" ELSE "image/png",
                         saved |-> env.magick /\ args.save])
    IN  Then(screenSize, Then(screenshot, checked))

\* mobile_take_screenshot: the handler body, requireRobot() and then the try block
ScreenshotBody(r, args, env) == Then(requireRobot(r), ScreenshotTry(r, args, env))

----------------------------------------------------------------------------
(* server.ts: from a handler's execution to the callback's result          *)

\* a CallToolResult (thrown = "none"), or the exception the callback let escape;
\* a text is the sequence of the pieces its template joins
TextResult(text, isError) ==
    [thrown |-> "none", isError |-> isError, text |-> text, image |-> FALSE]

\* tool(): wrappedCb
tool(exec) ==
    IF exec.err = "none" THEN TextResult(exec.val, FALSE)
    ELSE IF exec.err = "ActionableError"
         THEN TextResult(exec.msg \o <<". Please fix the issue and try again.">>, FALSE)
         ELSE TextResult(<<"Error: ">> \o exec.msg, TRUE)

\* the callback mobile_take_screenshot registers with server.tool directly
mobile_take_screenshot(r, args, env) ==
    LET required == requireRobot(r)
        tried    == ScreenshotTry(r, args, env)
    IN  IF required.err # "none"
        THEN [thrown |-> required.err, isError |-> FALSE, text |-> required.msg,
              image |-> FALSE]
        ELSE IF tried.err # "none"
             THEN TextResult(<<"Error: ">> \o tried.msg, TRUE)
             ELSE [thrown |-> "none", isError |-> FALSE, text |-> tried.val.text,
                   image |-> TRUE]

----------------------------------------------------------------------------
(* The inputs of the server model                                          *)

\* how many leading dumps may report the transient failure (more than MaxTries)
MaxNulls == 11
\* the latest command of one method that may fail
MaxFailAt == 2
\* the largest coordinate a caller passes to the click tool
MaxClick == 1

Devices  == {"emulator-5554", "R58M"}
Packages == {"com.example.app"}
Buttons  == {"HOME", "ENTER", "POWER", "constructor"}
Directions == {"up", "down", "left", "right"}

strSubmitForm   == <<"S","u","b","m","i","t"," ","F","o","r","m">>
strSubmitButton == <<"s","u","b","m","i","t","_","b","u","t","t","o","n">>
strOK           == <<"O","K">>
strHi           == <<"h","i">>
strAB           == <<"a"," ","b">>
strUrl          == <<"h","t","t","p",":","/","/","a">>
clsButton       == <<"a","n","d","r","o","i","d",".","w","i","d","g","e","t",".","B","u","t","t","o","n">>
clsFrameLayout  == <<"a","n","d","r","o","i","d",".","w","i","d","g","e","t",".","F","r","a","m","e","L","a","y","o","u","t">>
clsTextView     == <<"a","n","d","r","o","i","d",".","w","i","d","g","e","t",".","T","e","x","t","V","i","e","w">>
querySubmit     == <<"s","u","b","m","i","t">>
queryForm       == <<"F","O","R","M">>
queryNone       == <<"z","z","z">>

\* a node of the dump with the attributes uiautomator writes; hint is absent
Node(class, text, contentDesc, resourceId, clickable, bounds, children) ==
    [class |-> class, text |-> text, bounds |-> bounds, hint |-> Undef,
     focused |-> strFalse, clickable |-> clickable, focusable |-> strFalse,
     contentDesc |-> contentDesc, resourceId |-> resourceId, node |-> children]

\* a form with two buttons inside a plain container
ScreenForm ==
    Node(clsFrameLayout, <<>>, <<>>, <<>>, strFalse, <<"[","0",",","0","]","[","2","0","0",",","4","0","0","]">>,
         Children(<<
            Node(clsButton, <<>>, strSubmitForm, <<>>, strTrue,
                 <<"[","1","0",",","1","0","]","[","1","1","0",",","6","1","]">>, NoChildren),
            Node(clsButton, strOK, <<>>, strSubmitButton, strTrue,
                 <<"[","1","0",",","1","0","0","]","[","1","1","1",",","1","5","0","]">>, NoChildren) >>))

\* a container with nothing in it
ScreenBlank ==
    Node(clsFrameLayout, <<>>, <<>>, <<>>, strFalse, <<"[","0",",","0","]","[","2","0","0",",","4","0","0","]">>, NoChildren)

Screens == {ScreenForm, ScreenBlank}

Queries == {querySubmit, queryForm, queryNone}

ScreenSizes == {[width |-> 1000, height |-> 2000], [width |-> 800, height |-> 1600]}

AdbEnvs  == [ok : BOOLEAN]
\* pressing a button: the command's success, and what the runtime does with an
\* argument that is no string
PressEnvs == [ok : BOOLEAN, coerces : BOOLEAN]
SizeEnvs == [sizeOk : BOOLEAN, size : ScreenSizes \cup {NoSize}]
\* no transient failure, one, and from one short of the limit upwards
NullCounts == {0, 1} \cup ((MaxTries - 1)..MaxNulls)
DumpEnvs == [nulls : NullCounts, fail : 0..MaxFailAt, tree : Screens]

PngFiles == {[valid |-> FALSE, width |-> 0, height |-> 0],
             [valid |-> TRUE, width |-> 0, height |-> 2000],
             [valid |-> TRUE, width |-> 1000, height |-> 2000]}

strFiveMinutes  == <<"5","m">>
strError        == <<"e","r","r","o","r">>
strAppPackage   == <<"c","o","m",".","e","x","a","m","p","l","e",".","a","p","p">>
filterMineError == <<"p","a","c","k","a","g","e",":","m","i","n","e"," ","e","r","r","o","r">>
filterAppError  == <<"p","a","c","k","a","g","e",":","c","o","m",".","e","x","a","m","p","l","e",".","a","p","p"," ","e","r","r","o","r">>
lineSystem      == <<"c","o","m",".","a","n","d","r","o","i","d",".","s","y","s","t","e","m",":"," ","o","k">>
lineApp         == <<"c","o","m",".","e","x","a","m","p","l","e",".","a","p","p",":"," ","e","r","r","o","r"," ","s","e","e","n">>
lineOther       == <<"E","/","N","e","t",":"," ","E","r","r","o","r"," ","7">>

\* the log of the device: the process that wrote each line, and the line
DeviceLog ==
    << [pid |-> <<"1">>, line |-> lineSystem],
       [pid |-> <<"1","2","3">>, line |-> lineApp],
       [pid |-> <<"1","2","3">>, line |-> lineOther] >>

LogEnvs ==
    {[pidOk |-> TRUE, pids |-> <<<<"1","2","3">>>>, logOk |-> TRUE, log |-> DeviceLog],
     [pidOk |-> TRUE, pids |-> <<>>, logOk |-> TRUE, log |-> DeviceLog],
     [pidOk |-> FALSE, pids |-> <<>>, logOk |-> TRUE, log |-> DeviceLog],
     [pidOk |-> TRUE, pids |-> <<<<"1","2","3">>>>, logOk |-> FALSE, log |-> DeviceLog]}

LogOptions ==
    [timeWindow : {Undef, strFiveMinutes},
     filter : {Undef, strError, filterMineError, filterAppError},
     process : {Undef, strAppPackage}]

----------------------------------------------------------------------------
(* The server: one action per registered tool                              *)

Init ==
    /\ robot = NoRobot
    /\ call = [tool |-> "none", args |-> <<>>, env |-> <<>>]
    /\ run = Returned(<<>>)
    /\ result = TextResult(<<>>, FALSE)
    /\ input = <<>>
    /\ output = <<>>

\* a tool registered through tool(): the handler ran as `exec`
Handled(name, args, env, exec) ==
    /\ call' = [tool |-> name, args |-> args, env |-> env]
    /\ run' = exec
    /\ result' = tool(exec)
    /\ UNCHANGED <<input, output>>

UseDevice ==
    \E device \in Devices :
        LET args == [device |-> device, deviceType |-> "android"]
        IN  /\ robot' = AndroidRobot(device)
            /\ Handled("mobile_use_device", args, <<>>, mobile_use_device(robot, args))

ListApps ==
    \E env \in [ok : BOOLEAN, apps : {Packages}] :
        /\ Handled("mobile_list_apps", <<>>, env, mobile_list_apps(robot, <<>>, env))
        /\ UNCHANGED robot

LaunchApp ==
    \E args \in [packageName : Packages], env \in AdbEnvs :
        /\ Handled("mobile_launch_app", args, env, mobile_launch_app(robot, args, env))
        /\ UNCHANGED robot

TerminateApp ==
    \E args \in [packageName : Packages], env \in AdbEnvs :
        /\ Handled("mobile_terminate_app", args, env,
                   mobile_terminate_app(robot, args, env))
        /\ UNCHANGED robot

GetScreenSize ==
    \E env \in SizeEnvs :
        /\ Handled("mobile_get_screen_size", <<>>, env,
                   mobile_get_screen_size(robot, <<>>, env))
        /\ UNCHANGED robot

ClickOnScreen ==
    \E args \in [x : 0..MaxClick, y : 0..MaxClick], env \in AdbEnvs :
        /\ Handled("mobile_click_on_screen_at_coordinates", args, env,
                   mobile_click_on_screen_at_coordinates(robot, args, env))
        /\ UNCHANGED robot

ListElements ==
    \E env \in DumpEnvs :
        /\ Handled("mobile_list_elements_on_screen", <<>>, env,
                   mobile_list_elements_on_screen(robot, <<>>, env))
        /\ UNCHANGED robot

PressButton ==
    \E args \in [button : Buttons], env \in PressEnvs :
        /\ Handled("mobile_press_button", args, env,
                   mobile_press_button(robot, args, env))
        /\ UNCHANGED robot

OpenUrl ==
    \E args \in [url : {strUrl}], env \in AdbEnvs :
        /\ Handled("mobile_open_url", args, env, mobile_open_url(robot, args, env))
        /\ UNCHANGED robot

SwipeOnScreen ==
    \E args \in [direction : {"up", "right"}, x : {<<>>, <<100>>}, y : {<<>>, <<100>>},
                 distance : {NoDistance, <<50>>}],
       env \in [sizeOk : BOOLEAN, size : {[width |-> 800, height |-> 1600], NoSize},
                ok : BOOLEAN] :
        /\ Handled("swipe_on_screen", args, env, swipe_on_screen(robot, args, env))
        /\ UNCHANGED robot

TypeKeys ==
    \E args \in [text : {strHi, strAB}, submit : BOOLEAN],
       env \in [keys : AdbEnvs, enter : AdbEnvs] :
        /\ Handled("mobile_type_keys", args, env, mobile_type_keys(robot, args, env))
        /\ UNCHANGED robot

TakeScreenshot ==
    \E args \in [save : BOOLEAN],
       env \in [sizeOk : BOOLEAN, size : {[width |-> 1000, height |-> 2000]},
                shotOk : BOOLEAN,
                png : PngFiles, magick : BOOLEAN] :
        /\ call' = [tool |-> "mobile_take_screenshot", args |-> args, env |-> env]
        /\ run' = ScreenshotBody(robot, args, env)
        /\ result' = mobile_take_screenshot(robot, args, env)
        /\ UNCHANGED <<robot, input, output>>

SetOrientation ==
    \E args \in [orientation : {"portrait", "landscape"}],
       env \in [fail : 0..MaxFailAt] :
        /\ Handled("mobile_set_orientation", args, env,
                   mobile_set_orientation(robot, args, env))
        /\ UNCHANGED robot

GetOrientation ==
    \E env \in [ok : BOOLEAN, rotation : {"0", "1"}] :
        /\ Handled("mobile_get_orientation", <<>>, env,
                   mobile_get_orientation(robot, <<>>, env))
        /\ UNCHANGED robot

TapElement ==
    \E args \in [query : Queries], env \in [dump : DumpEnvs, tap : AdbEnvs] :
        /\ Handled("mobile_tap_element", args, env,
                   mobile_tap_element(robot, args, env))
        /\ UNCHANGED robot

GetLog ==
    \E args \in LogOptions, env \in LogEnvs :
        /\ Handled("mobile_get_log", args, env, mobile_get_log(robot, args, env))
        /\ UNCHANGED robot

Next ==
    \/ UseDevice
    \/ ListApps
    \/ LaunchApp
    \/ TerminateApp
    \/ GetScreenSize
    \/ ClickOnScreen
    \/ ListElements
    \/ PressButton
    \/ OpenUrl
    \/ SwipeOnScreen
    \/ TypeKeys
    \/ TakeScreenshot
    \/ SetOrientation
    \/ GetOrientation
    \/ TapElement
    \/ GetLog

Spec == Init /\ [][Next]_vars

----------------------------------------------------------------------------
(* Claims about the server                                                 *)

\* the tool of the last call was invoked while no device was selected
CalledWithoutDevice == call.tool # "none" /\ robot = NoRobot

\* the result has the form tool() gives an ActionableError
ActionableResult(message) ==
    /\ result.thrown = "none"
    /\ ~result.isError
    /\ result.text = message \o <<". Please fix the issue and try again.">>

\* the result has the form tool() gives any other error
FaultResult(message) ==
    /\ result.thrown = "none"
    /\ result.isError
    /\ result.text = <<"Error: ">> \o message

\* C1: while no device is selected, every device-addressed tool answers with the
\* "no device selected" ActionableError result and spawns no native command.
C1_NoDeviceIsActionable ==
    CalledWithoutDevice =>
        /\ run.err = "ActionableError"
        /\ ActionableResult(NoDeviceSelected)
        /\ run.cmds = <<>>

\* C4: for every tool, an ActionableError gives the message with guidance, not
\* marked as an error, and any other error gives a result marked isError.
C4_TwoTiers ==
    call.tool # "none" =>
        /\ run.err = "ActionableError" => ActionableResult(run.msg)
        /\ run.err = "Error" => FaultResult(run.msg)

\* the first pieces of the tools' success messages
SuccessPrefixes ==
    {"Selected device: ", "Found these apps on device: ", "Launched app ",
     "Terminated app ", "Screen size is ", "Clicked on screen at coordinates: ",
     "Found these elements on screen: ", "Pressed the button: ", "Opened URL: ",
     "Swiped ", "Typed text: ", "Screenshot: ", "Changed device orientation to ",
     "Current device orientation is ", "Tapped element ", "Device logs"}

HasSuccessMessage ==
    /\ result.thrown = "none"
    /\ result.text # <<>>
    /\ result.text[1] \in SuccessPrefixes

HasErrorMessage ==
    \/ result.thrown # "none"
    \/ ActionableResult(run.msg)
    \/ FaultResult(run.msg)

SomeMethodRaised == \E i \in 1..Len(run.ops) : ~run.ops[i].ok

\* C5: a tool gives its success message only if every robot method it invoked
\* returned; if one raised, the result is an error message.
C5_NoFabricatedSuccess ==
    call.tool # "none" =>
        /\ HasSuccessMessage => ~SomeMethodRaised /\ run.err = "none"
        /\ SomeMethodRaised => HasErrorMessage /\ ~HasSuccessMessage

\* C5's case: the text was typed and the ENTER press then failed
C5_Witness ==
    /\ call.tool = "mobile_type_keys"
    /\ Len(run.ops) = 2
    /\ run.ops[1].ok /\ ~run.ops[2].ok
    /\ Len(run.cmds) = 2
    /\ FaultResult(run.msg)

\* the dump environment of the last call, when it was a call that dumps the UI
DumpEnvOfCall ==
    IF call.tool = "mobile_tap_element" THEN call.env.dump ELSE call.env

\* every attempt of the last call's UI dump reported the transient failure
DumpRetriesExhausted ==
    /\ call.tool \in {"mobile_list_elements_on_screen", "mobile_tap_element"}
    /\ robot # NoRobot
    /\ DumpEnvOfCall.nulls >= MaxTries
    /\ DumpEnvOfCall.fail = 0

\* C6: exhausting the dump retries gives a result marked as an error, raised by
\* an error that is no ActionableError.
C6_ExhaustedDumpIsFault ==
    DumpRetriesExhausted =>
        /\ Len(run.cmds) = MaxTries
        /\ run.err # "ActionableError"
        /\ result.isError

----------------------------------------------------------------------------
(* The element matcher on its own: the filter and the tap that follows it  *)

ElementFields == <<"text", "label", "name", "value", "identifier">>

strBlank   == <<" ">>
strPadded  == <<" ","b"," ">>
strUpperB  == <<"B">>
queryEmpty == <<>>
queryB     == <<"b">>

FieldValues == {<<>>, strBlank, strSubmitForm, strSubmitButton, strPadded, strUpperB}

\* an element whose only field is the k-th one, with a rect of its own
ElementWith(k, v) ==
    [[type |-> strElement, text |-> Undef, label |-> <<>>, name |-> Undef,
      value |-> Undef, identifier |-> Undef, focused |-> FALSE,
      rect |-> [x |-> Num(10 * k), y |-> Num(7), width |-> Num(100 + k),
                height |-> Num(50)]]
     EXCEPT ![ElementFields[k]] = v]

MatchElements ==
    {ElementWith(k, v) : k \in 1..Len(ElementFields), v \in FieldValues}

ElementLists ==
    {<<>>} \cup {<<e>> : e \in MatchElements}
           \cup {<<e1, e2>> : e1 \in MatchElements, e2 \in MatchElements}

MatchQueries == {querySubmit, queryB, strBlank, queryEmpty}

MatchRobot == AndroidRobot("emulator-5554")

InitMatch ==
    /\ robot = MatchRobot
    /\ call = [tool |-> "none", args |-> <<>>, env |-> <<>>]
    /\ run = Returned(<<>>)
    /\ result = TextResult(<<>>, FALSE)
    /\ input \in [query : MatchQueries, elements : ElementLists]
    /\ output = [op |-> "none"]

\* elements.filter(...) of mobile_tap_element
FindMatches ==
    /\ output.op = "none"
    /\ output' = [op |-> "match",
                  matching |-> matchingElements(input.elements, input.query)]
    /\ UNCHANGED <<robot, call, run, result, input>>

\* mobile_tap_element from the filter on
TapFound ==
    \E env \in [tap : AdbEnvs] :
        /\ output.op = "none"
        /\ output' = [op |-> "tap",
                      exec |-> TapMatching(robot, input.query, input.elements, env)]
        /\ UNCHANGED <<robot, call, run, result, input>>

NextMatch == FindMatches \/ TapFound

SpecMatch == InitMatch /\ [][NextMatch]_vars

\* field contains query, letters compared without regard to case
ContainsIgnoringCase(field, query) ==
    \E i \in 0..(Len(field) - Len(query)) :
        \A j \in 1..Len(query) : LowerChar(field[i + j]) = LowerChar(query[j])

FieldsOf(e) == {e.text, e.label, e.name, e.value, e.identifier}

\* some non-empty field of e contains the query
NonEmptyFieldContains(e, query) ==
    \E f \in FieldsOf(e) : f # Undef /\ f # <<>> /\ ContainsIgnoringCase(f, query)

\* some field of e that is not only white space contains the query
NonBlankFieldContains(e, query) ==
    \E f \in FieldsOf(e) :
        /\ f # Undef
        /\ \E i \in 1..Len(f) : f[i] \notin WhiteSpace
        /\ ContainsIgnoringCase(f, query)

\* the query "submit" against "Submit Form" (label) and "submit_button" (identifier)
SubmitExample ==
    /\ input.query = querySubmit
    /\ input.elements = <<ElementWith(2, strSubmitForm), ElementWith(5, strSubmitButton)>>

\* C3 as stated: the match set is the elements with a non-empty field that
\* contains the query without regard to case.
C3_MatchSetNonEmptyFields ==
    output.op = "match" =>
        output.matching =
            SelectSeq(input.elements, LAMBDA e : NonEmptyFieldContains(e, input.query))

\* C3 amended: the match set is the elements with a field that is not blank
\* (not empty once trimmed) and contains the query without regard to case; the
\* query "submit" matches both "Submit Form" and "submit_button", which gives
\* the multi-match ActionableError.
C3_MatchSetNonBlankFields ==
    /\ output.op = "match" =>
          output.matching =
              SelectSeq(input.elements, LAMBDA e : NonBlankFieldContains(e, input.query))
    /\ output.op = "match" /\ SubmitExample => output.matching = input.elements
    /\ output.op = "tap" /\ SubmitExample =>
          /\ output.exec.err = "ActionableError"
          /\ output.exec.msg[1] = "Multiple elements found matching query"
          /\ output.exec.msg[3] = 2

\* C3's case: the two "submit" elements, both matched
C3_Witness ==
    /\ output.op = "match"
    /\ SubmitExample
    /\ Len(output.matching) = 2

\* the tap commands among the commands of an execution
TapCommands(exec) ==
    SelectSeq(exec.cmds, LAMBDA c : c.args[1] = "shell" /\ c.args[2] = "input"
                                    /\ c.args[3] = "tap")

\* the elements of the input that match its query
InputMatches ==
    SelectSeq(input.elements, LAMBDA e : NonBlankFieldContains(e, input.query))

\* C2: mobile_tap_element issues a tap iff exactly one element matches, and then
\* one tap at the centre of that element; with no match or several it raises an
\* ActionableError and sends no tap.
C2_TapsOnlyTheSingleMatch ==
    output.op = "tap" =>
        LET taps == TapCommands(output.exec)
        IN  /\ Len(taps) = 1 <=> Len(InputMatches) = 1
            /\ Len(taps) <= 1
            /\ Len(InputMatches) = 1 =>
                  LET rect == InputMatches[1].rect
                      x    == taps[1].args[4]
                      y    == taps[1].args[5]
                  IN  /\ 2 * x.int + x.half = 2 * rect.x[1] + rect.width[1]
                      /\ 2 * y.int + y.half = 2 * rect.y[1] + rect.height[1]
                      /\ x.half \in {0, 1} /\ y.half \in {0, 1}
            /\ Len(InputMatches) # 1 =>
                  /\ output.exec.err = "ActionableError"
                  /\ output.exec.cmds = <<>>

\* C2's case: one of two elements matches and is tapped at its centre, x ending in .5
C2_Witness ==
    /\ output.op = "tap"
    /\ Len(input.elements) = 2
    /\ Len(InputMatches) = 1
    /\ InputMatches[1] = input.elements[2]
    /\ Len(TapCommands(output.exec)) = 1
    /\ TapCommands(output.exec)[1].args[4].half = 1
    /\ output.exec.err = "none"

----------------------------------------------------------------------------
(* The Android extractor on its own: collectElements applied to a tree     *)

clsImageView   == <<"a","n","d","r","o","i","d",".","w","i","d","g","e","t",".","I","m","a","g","e","V","i","e","w">>
clsImageButton == <<"a","n","d","r","o","i","d",".","w","i","d","g","e","t",".","I","m","a","g","e","B","u","t","t","o","n">>
clsLowerButton == <<"a","n","d","r","o","i","d",".","w","i","d","g","e","t",".","b","u","t","t","o","n">>
strUpperTrue   == <<"T","R","U","E">>

\* a node with no attribute at all
AbsentNode ==
    [class |-> Undef, text |-> Undef, bounds |-> Undef, hint |-> Undef,
     focused |-> Undef, clickable |-> Undef, focusable |-> Undef,
     contentDesc |-> Undef, resourceId |-> Undef, node |-> NoChildren]

\* a node with the attributes uiautomator writes for an empty container
PlainNode ==
    [class |-> clsFrameLayout, text |-> <<>>, bounds |-> Undef, hint |-> Undef,
     focused |-> strFalse, clickable |-> strFalse, focusable |-> strFalse,
     contentDesc |-> <<>>, resourceId |-> <<>>, node |-> NoChildren]

\* nodes that differ from AbsentNode or PlainNode in one attribute
NodeVariants ==
    { AbsentNode, PlainNode,
      [AbsentNode EXCEPT !.text = strOK],
      [AbsentNode EXCEPT !.text = strBlank],
      [AbsentNode EXCEPT !.contentDesc = strSubmitForm],
      [AbsentNode EXCEPT !.hint = strHi],
      [AbsentNode EXCEPT !.resourceId = strSubmitButton],
      [AbsentNode EXCEPT !.clickable = strTrue],
      [AbsentNode EXCEPT !.clickable = strUpperTrue],
      [AbsentNode EXCEPT !.focusable = strTrue],
      [AbsentNode EXCEPT !.focused = strTrue],
      [AbsentNode EXCEPT !.class = clsButton],
      [AbsentNode EXCEPT !.class = clsImageView],
      [AbsentNode EXCEPT !.class = clsImageButton],
      [AbsentNode EXCEPT !.class = clsTextView],
      [AbsentNode EXCEPT !.class = clsLowerButton],
      [PlainNode EXCEPT !.hint = strHi, !.contentDesc = strSubmitForm],
      [PlainNode EXCEPT !.focusable = strTrue, !.focused = strTrue] }

\* the coordinates written into well-formed bounds
BoundCoords == {0, 7, 12, 105}

\* "[a,b][c,d]"
BoundsStr(a, b, c, d) ==
    <<"[">> \o NatToDigits(a) \o <<",">> \o NatToDigits(b) \o <<"]", "[">>
            \o NatToDigits(c) \o <<",">> \o NatToDigits(d) \o <<"]">>

WellFormedBounds ==
    {BoundsStr(a, b, c, d) : a \in BoundCoords, b \in BoundCoords,
                             c \in BoundCoords, d \in BoundCoords}

\* bounds that are absent or do not have the form
MalformedBounds ==
    {Undef, <<>>, <<"[","0",",","0","]","[","7",",","1","2">>, <<"[","0",",","0","]","[","7",",","1","2","]"," ">>, <<"[","-","1",",","0","]","[","7",",","1","2","]">>, <<"[","0",",","0","]",",","[","7",",","1","2","]">>,
     <<"0",",","0",",","7",",","1","2">>, <<"[","0",",","0","]","[","7",",","]">>, <<"[","a",",","0","]","[","7",",","1","2","]">>, <<"[","0",".","5",",","0","]","[","7",",","1","2","]">>}

\* a few bounds of every kind: valid, no width, negative width, no height, none
SomeBounds ==
    {BoundsStr(0, 0, 7, 12), BoundsStr(7, 0, 7, 12), BoundsStr(12, 0, 7, 12),
     BoundsStr(0, 12, 7, 12), Undef, <<"[","0",",","0","]","[","7",",","1","2">>}

ClickableLeaf == [AbsentNode EXCEPT !.clickable = strTrue]

Leaves ==
    {[n EXCEPT !.bounds = b] : n \in NodeVariants, b \in SomeBounds}
    \cup {[ClickableLeaf EXCEPT !.bounds = b] : b \in WellFormedBounds \cup MalformedBounds}

\* the leaves put under a parent
KidLeaves ==
    {[ClickableLeaf EXCEPT !.bounds = BoundsStr(7, 12, 105, 105)],
     [AbsentNode EXCEPT !.text = strOK, !.bounds = BoundsStr(0, 0, 12, 7)],
     [ClickableLeaf EXCEPT !.bounds = BoundsStr(7, 7, 7, 7)],
     [PlainNode EXCEPT !.bounds = BoundsStr(0, 0, 105, 105)]}

\* the parents: a plain container, a button without usable bounds, a labelled one
Parents ==
    {[PlainNode EXCEPT !.bounds = BoundsStr(0, 0, 105, 105)],
     [AbsentNode EXCEPT !.class = clsButton, !.bounds = BoundsStr(12, 12, 0, 0)],
     [AbsentNode EXCEPT !.text = strOK, !.bounds = BoundsStr(0, 0, 105, 105)]}

KidLists ==
    {OneChild(k) : k \in KidLeaves}
    \cup {Children(<<k1, k2>>) : k1 \in KidLeaves, k2 \in KidLeaves}
    \cup {Children(<<>>)}
    \cup {OneChild([p EXCEPT !.node = Children(<<k>>)]) : p \in Parents, k \in KidLeaves}

Trees == Leaves \cup {[p EXCEPT !.node = ks] : p \in Parents, ks \in KidLists}

InitExtract ==
    /\ robot = NoRobot
    /\ call = [tool |-> "none", args |-> <<>>, env |-> <<>>]
    /\ run = Returned(<<>>)
    /\ result = TextResult(<<>>, FALSE)
    /\ input \in Trees
    /\ output = [op |-> "none"]

\* this.collectElements(hierarchy.node)
Collect ==
    /\ output.op = "none"
    /\ output' = [op |-> "collect", elements |-> collectElements(input)]
    /\ UNCHANGED <<robot, call, run, result, input>>

NextExtract == Collect

SpecExtract == InitExtract /\ [][NextExtract]_vars

\* the nodes of a tree, every node after its descendants
RECURSIVE PostOrder(_)
RECURSIVE PostOrderAll(_)
PostOrderAll(nodes) ==
    IF nodes = <<>> THEN <<>> ELSE PostOrder(Head(nodes)) \o PostOrderAll(Tail(nodes))
PostOrder(n) ==
    (CASE n.node.kind = "many" -> PostOrderAll(n.node.nodes)
       [] n.node.kind = "one"  -> PostOrder(n.node.node)
       [] OTHER                -> <<>>) \o <<n>>

\* t occurs in s
HasSubstring(s, t) ==
    \E i \in 1..Len(s) : i + Len(t) - 1 <= Len(s) /\ SubSeq(s, i, i + Len(t) - 1) = t

NonEmptyAttr(a) == a # Undef /\ Len(a) > 0

\* (a) of C7: a non-empty text, content-desc, hint or resource-id, or clickable,
\* or focusable, or a class name with one of the four substrings
HasContentOrIsInteractive(n) ==
    \/ NonEmptyAttr(n.text) \/ NonEmptyAttr(n.contentDesc)
    \/ NonEmptyAttr(n.hint) \/ NonEmptyAttr(n.resourceId)
    \/ n.clickable = <<"t","r","u","e">>
    \/ n.focusable = <<"t","r","u","e">>
    \/ /\ n.class # Undef
       /\ \E t \in {strButton, strImageView, strImageButton, strView} :
             HasSubstring(n.class, t)

\* (b) of C7: the bounds are "[a,b][c,d]" with c > a and d > b
HasPositiveBounds(n) ==
    \E a \in BoundCoords, b \in BoundCoords, c \in BoundCoords, d \in BoundCoords :
        n.bounds = BoundsStr(a, b, c, d) /\ c > a /\ d > b

\* the nodes of the input that C7 says are emitted, in the order of the traversal
Emitted ==
    SelectSeq(PostOrder(input),
              LAMBDA n : HasContentOrIsInteractive(n) /\ HasPositiveBounds(n))

\* the input is a leaf whose only attributes are clickable="true" and valid bounds
OnlyClickableLeaf ==
    /\ input.node = NoChildren
    /\ input.clickable = strTrue
    /\ HasPositiveBounds(input)
    /\ [input EXCEPT !.clickable = Undef, !.bounds = Undef] = AbsentNode

\* C7: the extractor emits a node iff (a) and (b), one element per such node,
\* with the node's text and its content-desc or hint as label; a leaf with only
\* clickable="true" and valid bounds is emitted with no text and an empty label.
C7_EmitsExactlyIncludedNodes ==
    output.op = "collect" =>
        /\ Len(output.elements) = Len(Emitted)
        /\ \A i \in 1..Len(Emitted) :
              /\ output.elements[i].text = Emitted[i].text
              /\ output.elements[i].label =
                    (IF NonEmptyAttr(Emitted[i].contentDesc) THEN Emitted[i].contentDesc
                     ELSE IF NonEmptyAttr(Emitted[i].hint) THEN Emitted[i].hint
                     ELSE <<>>)
        /\ OnlyClickableLeaf =>
              /\ Len(output.elements) = 1
              /\ output.elements[1].text = Undef
              /\ output.elements[1].label = <<>>

\* C7's case: the leaf with only clickable="true" came out as one element
C7_Witness ==
    /\ output.op = "collect"
    /\ OnlyClickableLeaf
    /\ Len(output.elements) = 1
    /\ output.elements[1].label = <<>>

\* C8: an emitted element's rect is x=a, y=b, width=c-a, height=d-b of its
\* node's bounds "[a,b][c,d]"; a node whose bounds are absent, malformed or
\* without positive width and height is left out, its descendants are not.
C8_RectFromBounds ==
    output.op = "collect" =>
        /\ Len(output.elements) = Len(Emitted)
        /\ \A i \in 1..Len(Emitted) :
              \E a \in BoundCoords, b \in BoundCoords,
                 c \in BoundCoords, d \in BoundCoords :
                  /\ Emitted[i].bounds = BoundsStr(a, b, c, d)
                  /\ output.elements[i].rect =
                        [x |-> <<a>>, y |-> <<b>>, width |-> <<c - a>>,
                         height |-> <<d - b>>]
        /\ \A i \in 1..Len(output.elements) :
              /\ output.elements[i].rect.width[1] > 0
              /\ output.elements[i].rect.height[1] > 0

\* C8's case: a button whose bounds give a negative size is left out while its
\* child, with bounds [7,12][105,105], is emitted with its rect
C8_Witness ==
    /\ output.op = "collect"
    /\ input.class = clsButton
    /\ input.bounds = BoundsStr(12, 12, 0, 0)
    /\ input.node.kind = "one"
    /\ output.elements = <<ElementOf(input.node.node)>>
    /\ output.elements[1].rect =
          [x |-> <<7>>, y |-> <<12>>, width |-> <<98>>, height |-> <<93>>]

----------------------------------------------------------------------------
(* The gesture synthesizer on its own: swipe and swipeFromCoordinate       *)

\* the largest side of the small screens
MaxSide == 11

GestureSizes ==
    ScreenSizes \cup [width : 1..MaxSide, height : 1..MaxSide]

\* the directions of SwipeDirection and one that is none of them
AnyDirections == Directions \cup {"diagonal"}

SwipeInputs ==
    [op : {"swipe"}, direction : AnyDirections,
     env : [sizeOk : BOOLEAN, size : GestureSizes \cup {NoSize}, ok : BOOLEAN]]

\* anchors on every screen of AnchoredSizes, and callers' distances
Anchors   == {0, 5, 10, 100}
Distances == {NoDistance, <<0>>, <<3>>, <<400>>, <<5000>>, <<-2000>>}
AnchoredSizes ==
    ScreenSizes \cup {[width |-> 100, height |-> 100]}

SwipeFromInputs ==
    [op : {"swipeFromCoordinate"}, x : Anchors, y : Anchors,
     direction : AnyDirections, distance : Distances,
     env : [sizeOk : BOOLEAN, size : AnchoredSizes \cup {NoSize}, ok : BOOLEAN]]

GestureRobot == "emulator-5554"

InitGesture ==
    /\ robot = AndroidRobot(GestureRobot)
    /\ call = [tool |-> "none", args |-> <<>>, env |-> <<>>]
    /\ run = Returned(<<>>)
    /\ result = TextResult(<<>>, FALSE)
    /\ input \in SwipeInputs \cup SwipeFromInputs
    /\ output = [op |-> "none"]

\* robot.swipe(direction)
Swipe ==
    /\ output.op = "none"
    /\ input.op = "swipe"
    /\ output' = [op |-> "swipe",
                  exec |-> swipe(robot.deviceId, input.direction, input.env)]
    /\ UNCHANGED <<robot, call, run, result, input>>

\* robot.swipeFromCoordinate(x, y, direction, distance)
SwipeFromCoordinate ==
    /\ output.op = "none"
    /\ input.op = "swipeFromCoordinate"
    /\ output' = [op |-> "swipeFromCoordinate",
                  exec |-> swipeFromCoordinate(robot.deviceId, input.x, input.y,
                                               input.direction, input.distance,
                                               input.env)]
    /\ UNCHANGED <<robot, call, run, result, input>>

NextGesture == Swipe \/ SwipeFromCoordinate

SpecGesture == InitGesture /\ [][NextGesture]_vars

\* the `input swipe` commands among the commands of an execution
SwipeCommands(exec) ==
    SelectSeq(exec.cmds, LAMBDA c : c.args[1] = "shell" /\ c.args[2] = "input"
                                    /\ c.args[3] = "swipe")

\* getScreenSize returned the size of the screen
SizeKnown == input.env.sizeOk /\ input.env.size # NoSize

\* v = floor(num / den)
IsFloorOf(v, num, den) == v * den <= num /\ num < (v + 1) * den

\* C9: the end point swipeFromCoordinate passes to `input swipe` is on the
\* screen, whatever the anchor, the direction and the distance; (100, 100, "up")
\* with no distance on an 800x1600 screen ends at y1 = 0.
C9_EndPointOnScreen ==
    output.op = "swipeFromCoordinate" =>
        \A i \in 1..Len(SwipeCommands(output.exec)) :
            LET c == SwipeCommands(output.exec)[i]
            IN  /\ 0 <= c.args[6] /\ c.args[6] <= input.env.size.width
                /\ 0 <= c.args[7] /\ c.args[7] <= input.env.size.height
                /\ (/\ input.x = 100 /\ input.y = 100 /\ input.direction = "up"
                    /\ input.distance = NoDistance
                    /\ input.env.size = [width |-> 800, height |-> 1600])
                   => c.args[7] = 0

\* the points C10 gives for a direction on a w x h screen
IsCentredSwipe(direction, w, h, x0, y0, x1, y1) ==
    CASE direction = "up" ->
            /\ IsFloorOf(x0, w, 2) /\ x1 = x0
            /\ IsFloorOf(y0, 8 * h, 10) /\ IsFloorOf(y1, 2 * h, 10)
      [] direction = "down" ->
            /\ IsFloorOf(x0, w, 2) /\ x1 = x0
            /\ IsFloorOf(y0, 2 * h, 10) /\ IsFloorOf(y1, 8 * h, 10)
      [] direction = "left" ->
            /\ IsFloorOf(x0, 8 * w, 10) /\ IsFloorOf(x1, 2 * w, 10)
            /\ IsFloorOf(y0, h, 2) /\ y1 = y0
      [] direction = "right" ->
            /\ IsFloorOf(x0, 2 * w, 10) /\ IsFloorOf(x1, 8 * w, 10)
            /\ IsFloorOf(y0, h, 2) /\ y1 = y0

\* C10: swipe(direction) sends one `input swipe` through the middle of the
\* screen, from 80% to 20% of the height for up, from 20% to 80% for down, from
\* 80% to 20% of the width for left, from 20% to 80% for right, with the
\* duration 1000; up on a 1000x2000 screen is 500,1600 -> 500,400.
C10_CentredSwipe ==
    (output.op = "swipe" /\ SizeKnown /\ input.direction \in Directions) =>
        LET cs == SwipeCommands(output.exec)
        IN  /\ Len(cs) = 1
            /\ Len(cs[1].args) = 8
            /\ IsCentredSwipe(input.direction, input.env.size.width,
                              input.env.size.height,
                              cs[1].args[4], cs[1].args[5], cs[1].args[6], cs[1].args[7])
            /\ cs[1].args[8] = "1000"
            /\ (input.direction = "up"
                /\ input.env.size = [width |-> 1000, height |-> 2000])
               => <<cs[1].args[4], cs[1].args[5], cs[1].args[6], cs[1].args[7]>>
                  = <<500, 1600, 500, 400>>

\* C10's case: the swipe up on the 1000x2000 screen was sent
C10_Witness ==
    /\ output.op = "swipe"
    /\ input.direction = "up"
    /\ input.env.size = [width |-> 1000, height |-> 2000]
    /\ output.exec.err = "none"
    /\ Len(output.exec.cmds) = 2
    /\ output.exec.cmds[2].args
          = <<"shell", "input", "swipe", 500, 1600, 500, 400, "1000">>

\* the travel C11 gives: the caller's distance, or 30% of the side the
\* direction runs along when no distance is given
TravelOf(direction, distance, w, h, t) ==
    IF distance # NoDistance THEN t = distance[1]
    ELSE IF direction \in {"up", "down"} THEN IsFloorOf(t, 3 * h, 10)
         ELSE IsFloorOf(t, 3 * w, 10)

\* the end point of a swipe from (x, y) that travels t in the direction
TargetOf(direction, x, y, t) ==
    CASE direction = "up"    -> <<x, y - t>>
      [] direction = "down"  -> <<x, y + t>>
      [] direction = "left"  -> <<x - t, y>>
      [] direction = "right" -> <<x + t, y>>

\* C11: swipeFromCoordinate starts at the anchor, keeps the coordinate across
\* the direction, and ends where the caller's distance (30% of the side along
\* the direction when none is given) leads, whenever that point is on the screen
\* and needs no clamping.
C11_AnchoredTravel ==
    (output.op = "swipeFromCoordinate" /\ SizeKnown /\ input.direction \in Directions) =>
        LET cs == SwipeCommands(output.exec)
            w  == input.env.size.width
            h  == input.env.size.height
        IN  /\ Len(cs) = 1
            /\ cs[1].args[4] = input.x /\ cs[1].args[5] = input.y
            /\ input.direction \in {"up", "down"} => cs[1].args[6] = input.x
            /\ input.direction \in {"left", "right"} => cs[1].args[7] = input.y
            /\ \A t \in -5000..5000 :
                  LET target == TargetOf(input.direction, input.x, input.y, t)
                  IN  (/\ TravelOf(input.direction, input.distance, w, h, t)
                       /\ 0 <= target[1] /\ target[1] <= w
                       /\ 0 <= target[2] /\ target[2] <= h)
                      => <<cs[1].args[6], cs[1].args[7]>> = target

----------------------------------------------------------------------------
(* The input-injecting methods on their own: pressButton, swipe and        *)
(* swipeFromCoordinate                                                     *)

\* button names: supported ones, unsupported ones and the empty name
PressInputs ==
    [op : {"pressButton"},
     button : Buttons \cup {"BACK", "DPAD_CENTER", "POWER_OFF", "home", "", "toString"},
     env : PressEnvs]

InitInject ==
    /\ robot = AndroidRobot(GestureRobot)
    /\ call = [tool |-> "none", args |-> <<>>, env |-> <<>>]
    /\ run = Returned(<<>>)
    /\ result = TextResult(<<>>, FALSE)
    /\ input \in PressInputs \cup SwipeInputs \cup SwipeFromInputs
    /\ output = [op |-> "none"]

\* robot.pressButton(button)
PressButtonOn ==
    /\ output.op = "none"
    /\ input.op = "pressButton"
    /\ output' = [op |-> "pressButton",
                  exec |-> pressButton(robot.deviceId, input.button, input.env)]
    /\ UNCHANGED <<robot, call, run, result, input>>

NextInject == PressButtonOn \/ Swipe \/ SwipeFromCoordinate

SpecInject == InitInject /\ [][NextInject]_vars

\* the commands of an execution that inject input: key events and swipes
InjectionCommands(exec) ==
    SelectSeq(exec.cmds, LAMBDA c : /\ c.args[1] = "shell" /\ c.args[2] = "input"
                                    /\ c.args[3] \in {"keyevent", "swipe", "tap", "text"})

\* the button or the direction of the last call is not a supported one
UnsupportedInput ==
    \/ output.op = "pressButton" /\ input.button \notin DOMAIN BUTTON_MAP
    \/ /\ output.op \in {"swipe", "swipeFromCoordinate"}
       /\ input.direction \notin Directions
       \* the direction is looked at once the screen size is known
       /\ SizeKnown

\* C12: an unsupported button passed to pressButton, or an unsupported
\* direction passed to swipe or swipeFromCoordinate, fails with ActionableError
\* and sends no key event and no swipe to the device.
C12_UnsupportedIsActionable ==
    UnsupportedInput =>
        /\ output.exec.err = "ActionableError"
        /\ InjectionCommands(output.exec) = <<>>

----------------------------------------------------------------------------
(* The log reader on its own: getDeviceLogs                                *)

strThirtySeconds == <<"3","0","s">>
strTwoHours      == <<"2","h">>
strSoon          == <<"s","o","o","n">>
strUpperError    == <<"E","R","R","O","R">>
strMineral       == <<"m","i","n","e","r","a","l">>
filterMine       == <<"p","a","c","k","a","g","e",":","m","i","n","e">>
filterApp        == <<"p","a","c","k","a","g","e",":","c","o","m",".","e","x","a","m","p","l","e",".","a","p","p">>
filterAppUpper   == <<"p","a","c","k","a","g","e",":","c","o","m",".","e","x","a","m","p","l","e",".","a","p","p"," ","E","R","R","O","R">>
lineIo           == <<"i","o",".","d","e","m","o",":"," ","E","r","r","o","r"," ","5">>
lineNet          == <<"n","e","t",".","x"," ","a","n","d","r","o","i","d",".","y"," ","e","r","r","o","r">>
lineSystemServer == <<"s","y","s","t","e","m","_","s","e","r","v","e","r",":"," ","e","r","r","o","r">>
lineMineral      == <<"m","i","n","e","r","a","l",":"," ","e","r","r","o","r"," ","c","o","m",".","z">>
lineBlank        == <<" "," ">>

\* a second log: lines with each marker, in both cases of the text, and a
\* blank line
MixedLog ==
    << [pid |-> <<"7">>, line |-> lineIo],
       [pid |-> <<"1">>, line |-> lineSystem],
       [pid |-> <<"1","2","3">>, line |-> lineBlank],
       [pid |-> <<"1","2","3">>, line |-> lineApp],
       [pid |-> <<"7">>, line |-> lineNet],
       [pid |-> <<"1">>, line |-> lineSystemServer],
       [pid |-> <<"9">>, line |-> lineMineral],
       [pid |-> <<"1","2","3">>, line |-> lineOther],
       [pid |-> <<"7">>, line |-> lineIo] >>

AllLogEnvs ==
    LogEnvs \cup
    {[pidOk |-> TRUE, pids |-> <<<<"1","2","3">>>>, logOk |-> TRUE, log |-> MixedLog],
     [pidOk |-> TRUE, pids |-> <<<<"1","2","3">>, <<"7">>>>, logOk |-> TRUE, log |-> MixedLog],
     [pidOk |-> TRUE, pids |-> <<>>, logOk |-> TRUE, log |-> MixedLog],
     [pidOk |-> FALSE, pids |-> <<>>, logOk |-> TRUE, log |-> MixedLog],
     [pidOk |-> TRUE, pids |-> <<>>, logOk |-> TRUE, log |-> <<>>]}

AllLogOptions ==
    [timeWindow : {Undef, <<>>, strFiveMinutes, strThirtySeconds, strTwoHours, strSoon},
     filter : {Undef, <<>>, strError, strUpperError, filterMine, filterMineError,
               filterApp, filterAppError, filterAppUpper},
     process : {Undef, strAppPackage, strMine, strMineral}]

InitLogs ==
    /\ robot = AndroidRobot(GestureRobot)
    /\ call = [tool |-> "none", args |-> <<>>, env |-> <<>>]
    /\ run = Returned(<<>>)
    /\ result = TextResult(<<>>, FALSE)
    /\ input \in [options : AllLogOptions, env : AllLogEnvs]
    /\ output = [op |-> "none"]

\* robot.getDeviceLogs(options)
GetDeviceLogs ==
    /\ output.op = "none"
    /\ output' = [op |-> "getDeviceLogs",
                  exec |-> getDeviceLogs(robot.deviceId, input.options, input.env)]
    /\ UNCHANGED <<robot, call, run, result, input>>

NextLogs == GetDeviceLogs

SpecLogs == InitLogs /\ [][NextLogs]_vars

\* the last call of getDeviceLogs returned
LogsReturned == output.op = "getDeviceLogs" /\ output.exec.err = "none"

\* the options with the process p written into the filter as a package: predicate
FoldedOptions(options) ==
    [timeWindow |-> options.timeWindow,
     process    |-> Undef,
     filter     |-> IF Truthy(options.filter)
                    THEN strPackageColon \o options.process \o <<" ">> \o options.filter
                    ELSE strPackageColon \o options.process]

\* the options name a process, and a bare filter or none
FoldsProcess ==
    /\ Truthy(input.options.process)
    /\ ~(Truthy(input.options.filter) /\ includes(input.options.filter, strPackageColon))

\* C13: a call with a process p and a bare filter f sends the same commands and
\* returns the same lines as the call with the filter "package:p f" and no
\* process, and a call with p alone the same as the call with "package:p".
C13_FoldingIsEquivalent ==
    (output.op = "getDeviceLogs" /\ FoldsProcess) =>
        LET folded == getDeviceLogs(robot.deviceId, FoldedOptions(input.options),
                                    input.env)
        IN  /\ output.exec.err = folded.err
            /\ output.exec.cmds = folded.cmds
            /\ output.exec.val = folded.val

\* the filter expression in force: the caller's filter, or the one the process
\* is folded into
EffectiveOfInput == EffectiveFilter(input.options.filter, input.options.process)

\* the expression is `package:mine`, alone or followed by a text
IsMineExpression(e) ==
    /\ Truthy(e)
    /\ startsWith(e, strPackageMine)
    /\ Len(e) > Len(strPackageMine) => e[Len(strPackageMine) + 1] \in WhiteSpace

\* the text that follows `package:mine`
MineText(e) == trim(SubSeq(e, Len(strPackageMine) + 1, Len(e)))

\* the line carries a user-package marker and no system marker
IsUserLine(line) ==
    /\ \E m \in {<<"c","o","m",".">>, <<"i","o",".">>, <<"n","e","t",".">>, <<"a","p","p",".">>} : HasSubstring(line, m)
    /\ \A m \in {<<"c","o","m",".","a","n","d","r","o","i","d",".">>, <<"a","n","d","r","o","i","d",".">>, <<"s","y","s","t","e","m","_">>} : ~HasSubstring(line, m)

\* the lines of the device's log, in their order
RawLines == [i \in 1..Len(input.env.log) |-> input.env.log[i].line]

\* the lines of a text: its pieces between line breaks, the empty text having none
RECURSIVE LinesOf(_)
LinesOf(text) ==
    IF text = <<>> THEN <<>>
    ELSE LET breaks == {i \in 1..Len(text) : text[i] = "\n"}
         IN  IF breaks = {} THEN <<text>>
             ELSE LET b == CHOOSE i \in breaks : \A j \in breaks : i <= j
                  IN  <<SubSeq(text, 1, b - 1)>> \o LinesOf(SubSeq(text, b + 1, Len(text)))

\* C14: under the effective filter `package:mine [text]` the output is exactly
\* the lines with a user-package marker, without a system marker and, when a
\* text is given, containing the text in any case; "package:mine error" on
\* `com.android.system: ok` and `com.example.app: error seen` gives the second.
C14_MineKeepsUserLines ==
    (LogsReturned /\ IsMineExpression(EffectiveOfInput)) =>
        LET text == MineText(EffectiveOfInput)
        IN  /\ LinesOf(output.exec.val) =
                  SelectSeq(RawLines, LAMBDA line :
                      /\ IsUserLine(line)
                      /\ text # <<>> => ContainsIgnoringCase(line, text))
            /\ (EffectiveOfInput = filterMineError /\ input.env.log = DeviceLog)
               => output.exec.val = lineApp

\* the logcat command of the last call: the last command it ran
LogcatCommand == output.exec.cmds[Len(output.exec.cmds)]

\* the process ids the logcat command was restricted to: the arguments that
\* follow each "--pid", which come after "-d" or after "-T" and its timestamp
PidsOfCommand ==
    LET args  == LogcatCommand.args
        first == IF args[3] = "-T" THEN 5 ELSE 4
    IN  [i \in 1..((Len(args) - first + 1) \div 2) |-> args[first + 2 * i - 1]]

\* the text the logcat command printed
RawOutput == Logcat(input.env.log, PidsOfCommand)

\* a is b with some of its entries left out
RECURSIVE IsSubsequence(_, _)
IsSubsequence(a, b) ==
    IF a = <<>> THEN TRUE
    ELSE IF b = <<>> THEN FALSE
    ELSE IF Head(a) = Head(b) THEN IsSubsequence(Tail(a), Tail(b))
    ELSE IsSubsequence(a, Tail(b))

\* C15: whatever the time window, the filter and the process, the lines
\* getDeviceLogs returns are lines of the text logcat printed, unaltered, in
\* their order, none more often than printed.
C15_OutputIsSubsequence ==
    LogsReturned =>
        IsSubsequence(LinesOf(output.exec.val), LinesOf(RawOutput))

\* C15's case: a filter removed lines from between lines it kept, one of which
\* was printed twice
C15_Witness ==
    /\ LogsReturned
    /\ input.env.log = MixedLog
    /\ input.options.filter = strError
    /\ Len(LinesOf(output.exec.val)) >= 3
    /\ Len(LinesOf(output.exec.val)) < Len(LinesOf(RawOutput))
    /\ LinesOf(output.exec.val)[1] = lineIo
    /\ LinesOf(output.exec.val)[Len(LinesOf(output.exec.val))] = lineIo

----------------------------------------------------------------------------
(* The UI dump on its own: the loop of getUiAutomatorDump, one attempt a   *)
(* step                                                                    *)

\* attempts whose command fails: none, an early one, the last one
FailingAttempts == (0..MaxFailAt) \cup {MaxTries}

DumpInputs == [nulls : 0..MaxNulls, fail : FailingAttempts, tree : Screens]

InitDump ==
    /\ robot = AndroidRobot(GestureRobot)
    /\ call = [tool |-> "none", args |-> <<>>, env |-> <<>>]
    /\ run = Returned(<<>>)
    /\ result = TextResult(<<>>, FALSE)
    /\ input \in DumpInputs
    /\ output = [pc |-> "loop", tries |-> 0, exec |-> Returned(<<>>)]

\* the dump command of the attempt after `tries` attempts
DumpCommand(tries) ==
    adb(robot.deviceId, <<"exec-out", "uiautomator", "dump", "/dev/tty">>,
        input.fail # tries + 1, input.tree)

\* the loop body, with a failed command counted as one more transient failure
DumpAttempt_retries_failed_command ==
    /\ output.pc = "loop"
    /\ output.tries < MaxTries
    /\ LET dump == DumpCommand(output.tries)
       IN  IF dump.err # "none" \/ output.tries < input.nulls
           THEN output' = [pc |-> "loop", tries |-> output.tries + 1,
                           exec |-> [output.exec EXCEPT !.cmds = @ \o dump.cmds]]
           ELSE output' = [pc |-> "returned", tries |-> output.tries,
                           exec |-> Then(output.exec, dump)]
    /\ UNCHANGED <<robot, call, run, result, input>>

\* one turn of the for loop: the dump command runs; its exception leaves the
\* method, a dump that reports the null root node leads to the next turn, any
\* other dump is returned
DumpAttempt ==
    /\ output.pc = "loop"
    /\ output.tries < MaxTries
    /\ LET dump == DumpCommand(output.tries)
       IN  IF dump.err # "none"
           THEN output' = [pc |-> "threw", tries |-> output.tries,
                           exec |-> Then(output.exec, dump)]
           ELSE IF output.tries < input.nulls
           THEN output' = [pc |-> "loop", tries |-> output.tries + 1,
                           exec |-> [output.exec EXCEPT !.cmds = @ \o dump.cmds]]
           ELSE output' = [pc |-> "returned", tries |-> output.tries,
                           exec |-> Then(output.exec, dump)]
    /\ UNCHANGED <<robot, call, run, result, input>>

\* the loop is left after the last turn: throw new ActionableError(...)
DumpExhausted ==
    /\ output.pc = "loop"
    /\ output.tries >= MaxTries
    /\ output' = [pc |-> "threw", tries |-> output.tries,
                  exec |-> Then(output.exec,
                                Threw("ActionableError",
                                      <<"Failed to get UIAutomator XML">>))]
    /\ UNCHANGED <<robot, call, run, result, input>>

NextDump == DumpAttempt \/ DumpExhausted

\* the call runs on until it returns or throws
SpecDump == InitDump /\ [][NextDump]_vars /\ WF_vars(NextDump)

\* attempt i ran and its dump reported the null root node
ReportedTransient(i) ==
    /\ i <= Len(output.exec.cmds)
    /\ output.exec.cmds[i].ok
    /\ i <= input.nulls

\* what C16 says of every moment of one call
DumpRetriesBounded ==
    LET cmds == output.exec.cmds
    IN  \* at most 10 dumps, all addressed to the robot's device
        /\ Len(cmds) <= 10
        /\ \A i \in 1..Len(cmds) :
              cmds[i].args = <<"exec-out", "uiautomator", "dump", "/dev/tty">>
        \* an attempt is followed by another one only if it reported the failure
        /\ \A i \in 1..Len(cmds) :
              (i < Len(cmds) \/ output.pc = "loop") => ReportedTransient(i)
        \* the first dump without the failure is the one returned
        /\ output.pc = "returned" =>
              /\ output.exec.err = "none"
              /\ ~ReportedTransient(Len(cmds))
              /\ output.exec.val = input.tree
        \* the call fails on exhaustion exactly when all 10 attempts reported it
        /\ (output.pc = "threw" /\ output.exec.err = "ActionableError") =>
              /\ Len(cmds) = 10
              /\ \A i \in 1..10 : ReportedTransient(i)
        /\ (output.pc # "loop" /\ \A i \in 1..10 : ReportedTransient(i)) =>
              /\ output.pc = "threw"
              /\ output.exec.msg = <<"Failed to get UIAutomator XML">>
        \* the finished loop is the call getElementsOnScreen makes
        /\ output.pc # "loop" => output.exec = getUiAutomatorDump(robot.deviceId, input)

\* C16: one call runs the UI dump at most 10 times, one after the other, stops
\* at and returns the first dump that does not report the null root node,
\* retries on that failure only, fails with the terminal error exactly when all
\* 10 attempts reported it, and always comes to an end.
C16_BoundedRetries == []DumpRetriesBounded /\ <>(output.pc # "loop")

\* C16's case: the tenth attempt reported the failure too and the call failed
C16_Witness ==
    /\ output.pc = "threw"
    /\ Len(output.exec.cmds) = 10
    /\ \A i \in 1..10 : ReportedTransient(i)
    /\ output.exec.err # "none"

\* C17: with the time window omitted logcat is run with -d and without a start
\* timestamp; with a time window it is run with -T and a start timestamp, and
\* without -d.
C17_DumpModeWhenNoWindow ==
    output.op = "getDeviceLogs" =>
        LET args == LogcatCommand.args
        IN  /\ <<args[1], args[2]>> = <<"shell", "logcat">>
            /\ IF input.options.timeWindow = Undef
               THEN args[3] = "-d"
               ELSE /\ args[3] = "-T"
                    /\ args[4] \in [secondsBack : Nat]
                    /\ \A i \in 5..Len(args) : i % 2 = 1 => args[i] = "--pid"

\* the package and the text of the effective filter of the last call
ParsedOfInput == ParsedFilter(EffectiveOfInput)

\* the effective filter names a package, whose process ids were resolved
PackageResolved ==
    /\ LogsReturned
    /\ Truthy(ParsedOfInput.packageFilter)
    /\ input.env.pidOk
    /\ input.env.pids # <<>>

\* C18: for a `package:<id>` filter the process ids of <id> are resolved first
\* and the capture is restricted to them; when that succeeds, every captured
\* line that passes the text filter is returned, whether or not it contains
\* <id>.
C18_SubstringOnlyAsFallback ==
    PackageResolved =>
        /\ Len(output.exec.cmds) = 2
        /\ output.exec.cmds[1].args = <<"shell", "pidof", ParsedOfInput.packageFilter>>
        /\ PidsOfCommand = input.env.pids
        /\ LinesOf(output.exec.val) =
              SelectSeq(LinesOf(RawOutput), LAMBDA line :
                  /\ trim(line) # <<>>
                  /\ Truthy(ParsedOfInput.searchQuery)
                        => ContainsIgnoringCase(line, ParsedOfInput.searchQuery))

----------------------------------------------------------------------------
(* Claims about the selected device                                        *)

====
